---------------------------- MODULE Spec2Model ----------------------------
(***************************************************************************)
(* A model of sasmodels/compare.py: the seeded random-number scope         *)
(* (push_seed), the parameter range heuristic (parameter_range), the       *)
(* parameter randomizer (_randomize_one, _random_pd, randomize_pars), the  *)
(* constraint repair (constrain_pars) and the comparison engine            *)
(* (run_models).                                                           *)
(*                                                                         *)
(* numpy's global generator is modelled as a pair (stream, pos): the       *)
(* stream is fixed by the seed, pos counts the draws made since seeding.   *)
(* Parameter names are strings; Python's str methods are the operators of  *)
(* the section "str".  Floating-point numbers are exact rationals n/d.     *)
(***************************************************************************)
EXTENDS Integers, Sequences, FiniteSets, TLC

VARIABLES
    rng,      \* numpy's global generator state (np.random.get_state())
    scopes,   \* the live push_seed objects, innermost last: their _state
    hist,     \* observer: per live scope, what happened since it was acquired
    event,    \* observer: the last operation and what it was given / gave
    pc,       \* where the caller of the function under study stands
    args,     \* the arguments of the function under study
    ret       \* what the function returned (or how it failed)

seedVars == <<rng, scopes, hist, event>>
callVars == <<pc, args, ret>>
vars == <<rng, scopes, hist, event, pc, args, ret>>

---------------------------------------------------------------------------
(* Bounds of the model. *)

MaxDepth == 2       \* at most this many nested push_seed scopes
MaxDraws == 2       \* at most this many draws since the last (re)seed
GridLen == 2        \* the evaluation grid has this many points
MaxEvals == 2       \* the evaluation counts are 0..MaxEvals
RawRange == 8       \* the generator's raw outputs are 0..RawRange-1
MaxChoices == 4     \* the longest choice list of a parameter
StatsLen == 4       \* the longest array of errors summarized
MaxSets == 2        \* the most parameter sets compared in one run (-sets)
MaxArgs == 3        \* the longest command line read

---------------------------------------------------------------------------
(* numpy.random, as compare.py uses it. *)

\* Python's None, as the seed argument of push_seed.
None == -1

\* The seeds a caller gives (24 is the doctests' seed), and the streams the
\* operating system's entropy may select.
Seeds == {24, 7}
EntropyStreams == {1, 2}

\* np.random.seed(seed): an integer seed fixes the stream; None reseeds from
\* the operating system's entropy, which is the caller-invisible choice
\* `entropy`.  Either way the sequence restarts.
seed_keep(cur, s, entropy) ==
    IF s = None THEN cur ELSE [stream |-> s, pos |-> 0]

seed(cur, s, entropy) ==
    [stream |-> IF s = None THEN entropy ELSE s, pos |-> 0]

\* The generator's raw output in state st, and the state after one draw.
Raw(st) == (3 * st.stream + 1 + st.pos * (5 + st.stream)) % RawRange
Step(st) == [st EXCEPT !.pos = @ + 1]

\* np.random.randint(n) read as a draw from 1..n.
randint_from_one(st, n) == 1 + (Raw(st) % n)

\* np.random.randint(n): an integer in 0..n-1.
randint(st, n) == Raw(st) % n

---------------------------------------------------------------------------
(* push_seed *)

\* push_seed.__init__: save the global state, then seed.  The result is the
\* object (its _state) and the new global state.
push_seed_init_late(cur, s, entropy) ==
    [_state |-> seed(cur, s, entropy), rng |-> seed(cur, s, entropy)]

push_seed_init(cur, s, entropy) ==
    [_state |-> cur, rng |-> seed(cur, s, entropy)]

\* push_seed.__exit__: the global state after release, whatever the
\* exception arguments are.
push_seed_exit_skip(self, cur) == cur

push_seed_exit(self, cur) == self._state

\* An exception leaving the n innermost with-blocks runs their __exit__
\* methods innermost first.
RECURSIVE Unwind(_, _, _)
Unwind(stack, cur, n) ==
    IF n = 0 THEN cur
    ELSE Unwind(SubSeq(stack, 1, Len(stack) - 1),
                push_seed_exit(stack[Len(stack)], cur), n - 1)

InitSeed ==
    /\ rng \in {[stream |-> e, pos |-> 0] : e \in EntropyStreams}
    /\ scopes = <<>>
    /\ hist = <<>>
    /\ event = [op |-> "start", seed |-> None, before |-> rng, moved |-> FALSE,
                value |-> 0, drawn |-> 0]
    /\ pc = "idle"
    /\ args = <<>>
    /\ ret = <<>>

\* with push_seed(s): ... is entered.
PushSeed ==
    \E s \in Seeds \cup {None}, e \in EntropyStreams :
        LET obj == push_seed_init(rng, s, e) IN
        /\ Len(scopes) < MaxDepth
        /\ rng' = obj.rng
        /\ scopes' = Append(scopes, [_state |-> obj._state])
        /\ hist' = Append(hist, [seed |-> s, before |-> rng, drawn |-> 0,
                                 inner |-> FALSE, raised |-> FALSE,
                                 innerDrawn |-> FALSE])
        /\ event' = [op |-> "push", seed |-> s, before |-> rng, moved |-> FALSE,
                     value |-> 0, drawn |-> 0]
        /\ UNCHANGED callVars

\* One draw from the global generator (randint(0, 1000000) in the doctests).
Draw ==
    /\ rng.pos < MaxDraws
    /\ rng' = Step(rng)
    /\ scopes' = scopes
    /\ hist' = IF hist = <<>> THEN hist
               ELSE [hist EXCEPT ![Len(hist)].drawn = @ + 1]
    /\ event' = [op |-> "draw", seed |-> None, before |-> rng, moved |-> FALSE,
                 value |-> randint(rng, RawRange),
                 drawn |-> IF hist = <<>> THEN 0 ELSE hist[Len(hist)].drawn + 1]
    /\ UNCHANGED callVars

\* What the enclosing scope's record becomes when n inner scopes are released.
Released(h, n, raised) ==
    LET keep == Len(h) - n
        gone == SubSeq(h, keep + 1, Len(h))
        drew == \E i \in 1..n : gone[i].drawn > 0 \/ gone[i].innerDrawn
    IN IF keep = 0 THEN <<>>
       ELSE [SubSeq(h, 1, keep) EXCEPT
                ![keep].inner = TRUE,
                ![keep].raised = @ \/ raised,
                ![keep].innerDrawn = @ \/ drew]

\* The protected block of the innermost scope finishes normally.
ExitNormal ==
    /\ scopes # <<>>
    /\ rng' = push_seed_exit(scopes[Len(scopes)], rng)
    /\ scopes' = SubSeq(scopes, 1, Len(scopes) - 1)
    /\ hist' = Released(hist, 1, FALSE)
    /\ event' = [op |-> "exit", seed |-> hist[Len(hist)].seed,
                 before |-> hist[Len(hist)].before,
                 moved |-> rng # hist[Len(hist)].before,
                 value |-> 0, drawn |-> hist[Len(hist)].drawn]
    /\ UNCHANGED callVars

\* The protected block raises; the exception is caught outside the n
\* innermost scopes.
ExitRaised ==
    \E n \in 1..Len(scopes) :
        /\ rng' = Unwind(scopes, rng, n)
        /\ scopes' = SubSeq(scopes, 1, Len(scopes) - n)
        /\ hist' = Released(hist, n, TRUE)
        /\ event' = [op |-> "raise", seed |-> hist[Len(hist) - n + 1].seed,
                     before |-> hist[Len(hist) - n + 1].before,
                     moved |-> rng # hist[Len(hist) - n + 1].before,
                     value |-> 0, drawn |-> hist[Len(hist)].drawn]
        /\ UNCHANGED callVars

NextSeed == PushSeed \/ Draw \/ ExitNormal \/ ExitRaised

SpecSeed == InitSeed /\ [][NextSeed]_vars

\* C1: releasing a push_seed scope, normally or through an exception, leaves
\* the global generator in the state it had when the scope was constructed,
\* whatever the seed and however many draws the block made.
C1_ExitRestoresState ==
    event.op \in {"exit", "raise"} => rng = event.before

\* A scope that drew, moved the generator away from the saved state, and was
\* left by an exception.
C1_Witness ==
    /\ event.op = "raise"
    /\ event.drawn >= 1
    /\ event.moved
    /\ rng = event.before

\* C2: in a scope seeded A, the j-th draw made directly in the scope is the
\* j-th value of A's sequence, also after inner scopes were opened, drew and
\* were released normally or by an exception.
C2_NestedScopesResume ==
    (event.op = "draw" /\ hist # <<>> /\ hist[Len(hist)].seed # None) =>
        LET top == hist[Len(hist)] IN
        /\ event.value = randint([stream |-> top.seed, pos |-> top.drawn - 1],
                                 RawRange)
        /\ rng = [stream |-> top.seed, pos |-> top.drawn]

\* The second draw of a seeded scope, made after an inner scope drew and was
\* left by an exception.
C2_Witness ==
    /\ event.op = "draw"
    /\ hist # <<>>
    /\ hist[Len(hist)].seed # None
    /\ hist[Len(hist)].drawn >= 2
    /\ hist[Len(hist)].inner
    /\ hist[Len(hist)].raised
    /\ hist[Len(hist)].innerDrawn

\* C3 as stated: a scope acquired with no seed leaves the global generator
\* as it was before the acquisition.
C3_NoSeedKeepsState ==
    (event.op = "push" /\ event.seed = None) => rng = event.before

\* C3 amended: acquisition always reseeds.  The object holds the state from
\* before the acquisition; with a seed the generator is at the start of that
\* seed's sequence, with no seed it is at the start of an entropy-chosen one.
C3_AcquireAlwaysReseeds ==
    event.op = "push" =>
        /\ scopes[Len(scopes)]._state = event.before
        /\ event.seed # None => rng = [stream |-> event.seed, pos |-> 0]
        /\ event.seed = None => rng.pos = 0 /\ rng.stream \in EntropyStreams

\* A scope acquired with no seed whose acquisition changed the generator.
C3_Witness ==
    /\ event.op = "push"
    /\ event.seed = None
    /\ event.before.pos > 0
    /\ rng # event.before

---------------------------------------------------------------------------
(* str: the methods of Python strings that compare.py uses. *)

endswith(p, suffix) ==
    /\ Len(p) >= Len(suffix)
    /\ SubSeq(p, Len(p) - Len(suffix) + 1, Len(p)) = suffix

startswith(p, prefix) ==
    /\ Len(p) >= Len(prefix)
    /\ SubSeq(p, 1, Len(prefix)) = prefix

\* sub in p
contains(p, sub) ==
    \E i \in 1..(Len(p) - Len(sub) + 1) : SubSeq(p, i, i + Len(sub) - 1) = sub

---------------------------------------------------------------------------
(* float: Python floats as exact rationals n/d in lowest terms, d > 0;     *)
(* inf and -inf are 1/0 and -1/0.                                          *)

Abs(i) == IF i < 0 THEN -i ELSE i

RECURSIVE Gcd(_, _)
Gcd(a, b) == IF b = 0 THEN a ELSE Gcd(b, a % b)

Q(n, d) ==
    LET g == Gcd(Abs(n), Abs(d))
        sgn == IF d < 0 THEN -1 ELSE 1
    IN [n |-> sgn * (n \div g), d |-> sgn * (d \div g)]

F(i) == [n |-> i, d |-> 1]
inf == [n |-> 1, d |-> 0]
neginf == [n |-> -1, d |-> 0]

isfinite(x) == x.d # 0

QAdd(x, y) ==
    LET g == Gcd(x.d, y.d)
    IN Q(x.n * (y.d \div g) + y.n * (x.d \div g), x.d * (y.d \div g))
QSub(x, y) == QAdd(x, [n |-> -y.n, d |-> y.d])
QMul(x, y) == Q(x.n * y.n, x.d * y.d)
QDiv(x, y) == Q(x.n * y.d, x.d * y.n)
QNeg(x) == [n |-> -x.n, d |-> x.d]

\* nan, and IEEE arithmetic on inf and nan.
nan == [n |-> 0, d |-> 0]

FAdd(x, y) ==
    IF x = nan \/ y = nan THEN nan
    ELSE IF isfinite(x) /\ isfinite(y) THEN QAdd(x, y)
    ELSE IF ~isfinite(x) /\ ~isfinite(y) THEN (IF x = y THEN x ELSE nan)
    ELSE IF ~isfinite(x) THEN x ELSE y

FSub(x, y) == FAdd(x, QNeg(y))

FAbs(x) == [n |-> Abs(x.n), d |-> x.d]

\* x / y for y # 0
FDiv(x, y) ==
    IF x = nan \/ y = nan THEN nan
    ELSE IF isfinite(x) /\ isfinite(y) THEN QDiv(x, y)
    ELSE IF ~isfinite(x) /\ ~isfinite(y) THEN nan
    ELSE IF ~isfinite(x) THEN (IF (x.n < 0) = (y.n < 0) THEN inf ELSE neginf)
    ELSE F(0)

\* x < y
QLt(x, y) ==
    IF ~isfinite(x) \/ ~isfinite(y)
    THEN x # y /\ (x = neginf \/ y = inf)
    ELSE x.n * y.d < y.n * x.d

QLe(x, y) == x = y \/ QLt(x, y)

\* int(x): truncation toward zero
int(x) == IF x.n >= 0 THEN x.n \div x.d ELSE -((-x.n) \div x.d)

\* Python's max(x, y) and min(x, y): the first argument wins a tie.
max(x, y) == IF QLt(x, y) THEN y ELSE x
min(x, y) == IF QLt(y, x) THEN y ELSE x

---------------------------------------------------------------------------
(* parameter_range *)

Returned(low, high) == [raised |-> "", low |-> low, high |-> high]
ValueError == [raised |-> "ValueError", low |-> F(0), high |-> F(0)]

parameter_range_pd_first(p, v) ==
    IF endswith(p, "_pd_n") THEN Returned(F(0), F(100))
    ELSE IF endswith(p, "_pd_nsigma") THEN Returned(F(0), F(5))
    ELSE IF endswith(p, "_pd_type") THEN ValueError
    ELSE IF endswith(p, "_pd") THEN Returned(F(0), F(1))
    ELSE IF \E sub \in {"theta", "phi", "psi"} : contains(p, sub) THEN
        IF endswith(p, "_pd") THEN Returned(F(0), F(45))
        ELSE Returned(F(-180), F(180))
    ELSE IF contains(p, "sld") THEN Returned(Q(-1, 2), F(10))
    ELSE IF p = "background" THEN Returned(F(0), F(10))
    ELSE IF p = "scale" THEN Returned(F(0), F(1000))
    ELSE IF QLt(v, F(0)) THEN Returned(QMul(F(2), v), QMul(F(-2), v))
    ELSE Returned(F(0), IF QLt(F(0), v) THEN QMul(F(2), v) ELSE F(1))

parameter_range(p, v) ==
    IF endswith(p, "_pd_n") THEN Returned(F(0), F(100))
    ELSE IF endswith(p, "_pd_nsigma") THEN Returned(F(0), F(5))
    ELSE IF endswith(p, "_pd_type") THEN ValueError
    ELSE IF \E sub \in {"theta", "phi", "psi"} : contains(p, sub) THEN
        IF endswith(p, "_pd") THEN Returned(F(0), F(45))
        ELSE Returned(F(-180), F(180))
    ELSE IF endswith(p, "_pd") THEN Returned(F(0), F(1))
    ELSE IF contains(p, "sld") THEN Returned(Q(-1, 2), F(10))
    ELSE IF p = "background" THEN Returned(F(0), F(10))
    ELSE IF p = "scale" THEN Returned(F(0), F(1000))
    ELSE IF QLt(v, F(0)) THEN Returned(QMul(F(2), v), QMul(F(-2), v))
    ELSE Returned(F(0), IF QLt(F(0), v) THEN QMul(F(2), v) ELSE F(1))

\* The names and values parameter_range is called with.
RangeNames ==
    {"radius_pd_n", "theta_pd_n", "radius_pd_nsigma", "phi_pd_nsigma",
     "radius_pd_type", "theta_pd_type", "theta", "theta_pd", "mphi:sld",
     "psi_pd", "sld_theta", "radius_pd", "sld", "sld_solvent_pd",
     "background", "scale", "radius", "M0:sld", "scale_pd", "xbackground",
     "d_penetration"}

RangeValues == {F(-5), Q(-1, 2), F(0), Q(1, 4), F(1), F(3), F(400)}

IdleSeed ==
    /\ rng = [stream |-> 1, pos |-> 0]
    /\ scopes = <<>>
    /\ hist = <<>>
    /\ event = [op |-> "start", seed |-> None, before |-> rng, moved |-> FALSE,
                value |-> 0, drawn |-> 0]

InitRange ==
    /\ IdleSeed
    /\ pc = "call"
    /\ args \in [p : RangeNames, v : RangeValues]
    /\ ret = <<>>

CallParameterRange ==
    /\ pc = "call"
    /\ pc' = "returned"
    /\ ret' = parameter_range(args.p, args.v)
    /\ UNCHANGED <<args, seedVars>>

NextRange == CallParameterRange

SpecRange == InitRange /\ [][NextRange]_vars

\* The rules of C9, in the claim's order; the last one always matches.
C9_Rules(p, v) ==
    << [m |-> endswith(p, "_pd_n"), r |-> Returned(F(0), F(100))],
       [m |-> endswith(p, "_pd_nsigma"), r |-> Returned(F(0), F(5))],
       [m |-> endswith(p, "_pd_type"), r |-> ValueError],
       [m |-> (contains(p, "theta") \/ contains(p, "phi") \/ contains(p, "psi"))
                /\ endswith(p, "_pd"),
        r |-> Returned(F(0), F(45))],
       [m |-> contains(p, "theta") \/ contains(p, "phi") \/ contains(p, "psi"),
        r |-> Returned(F(-180), F(180))],
       [m |-> endswith(p, "_pd"), r |-> Returned(F(0), F(1))],
       [m |-> contains(p, "sld"), r |-> Returned(Q(-1, 2), F(10))],
       [m |-> p = "background", r |-> Returned(F(0), F(10))],
       [m |-> p = "scale", r |-> Returned(F(0), F(1000))],
       [m |-> QLt(v, F(0)), r |-> Returned(QAdd(v, v), QNeg(QAdd(v, v)))],
       [m |-> QLt(F(0), v), r |-> Returned(F(0), QAdd(v, v))],
       [m |-> TRUE, r |-> Returned(F(0), F(1))] >>

C9_FirstMatch(rules) ==
    rules[CHOOSE i \in 1..Len(rules) :
              rules[i].m /\ \A j \in 1..(i - 1) : ~rules[j].m].r

\* C9: parameter_range returns the result of the first matching rule of the
\* claim's list; theta_pd_n gets (0,100) and sld_theta gets (-180,180).
C9_FirstRuleWins ==
    pc = "returned" =>
        /\ ret = C9_FirstMatch(C9_Rules(args.p, args.v))
        /\ args.p = "theta_pd_n" => ret = Returned(F(0), F(100))
        /\ args.p = "sld_theta" => ret = Returned(F(-180), F(180))
        /\ args.p = "theta_pd" => ret = Returned(F(0), F(45))
        /\ args.p = "theta_pd_type" => ret.raised = "ValueError"

\* A name matching both the orientation rule and the generic width rule,
\* called with a negative value, got the orientation width range.
C9_Witness ==
    /\ pc = "returned"
    /\ args.p = "psi_pd"
    /\ QLt(args.v, F(0))
    /\ ret = Returned(F(0), F(45))

---------------------------------------------------------------------------
(* Parameter values and parameter sets.  A value is a Python int, float or *)
(* str; a parameter set is a dict, kept as the sequence of its items in    *)
(* insertion order.                                                        *)

PyInt(i) == [t |-> "int", n |-> i, d |-> 1, s |-> ""]
PyFloat(x) == [t |-> "float", n |-> x.n, d |-> x.d, s |-> ""]
PyStr(x) == [t |-> "str", n |-> 0, d |-> 1, s |-> x]

\* The number a numeric value stands for.
Num(v) == [n |-> v.n, d |-> v.d]

Item(k, v) == [k |-> k, v |-> v]

keys(dict) == {dict[i].k : i \in 1..Len(dict)}

\* dict[k]
getitem(dict, k) == dict[CHOOSE i \in 1..Len(dict) : dict[i].k = k].v

\* dict.get(k, default)
get(dict, k, default) == IF k \in keys(dict) THEN getitem(dict, k) ELSE default

\* dict[k] = v: a present key keeps its place, a new one goes last.
setitem(dict, k, v) ==
    IF k \in keys(dict)
    THEN LET i == CHOOSE j \in 1..Len(dict) : dict[j].k = k
         IN SubSeq(dict, 1, i - 1) \o <<Item(k, v)>> \o SubSeq(dict, i + 1, Len(dict))
    ELSE Append(dict, Item(k, v))

\* dict.update(other)
RECURSIVE update(_, _)
update(dict, other) ==
    IF other = <<>> THEN dict
    ELSE LET next == setitem(dict, other[1].k, other[1].v)
         IN \* the test has TLC evaluate next before it goes on
            IF Len(next) > 0 THEN update(next, Tail(other)) ELSE <<>>

\* dict == other: the same keys with the same values, in any order.
dict_eq(dict, other) ==
    /\ keys(dict) = keys(other)
    /\ \A k \in keys(dict) : getitem(dict, k) = getitem(other, k)

---------------------------------------------------------------------------
(* suppress_magnetism *)

\* suppress_magnetism that stops at the first M0: key.
suppress_magnetism_first_only(pars, suppress) ==
    LET mags == {i \in 1..Len(pars) : startswith(pars[i].k, "M0:")}
        first_mag == CHOOSE i \in mags : \A j \in mags : i <= j
    IN IF mags = {} THEN pars
       ELSE IF suppress THEN [pars EXCEPT ![first_mag].v = PyInt(0)]
       ELSE IF \E i \in mags : Num(pars[i].v) # F(0) THEN pars
       ELSE [pars EXCEPT ![first_mag].v = PyFloat(F(8))]

suppress_magnetism(pars, suppress) ==
    IF suppress
    THEN [i \in 1..Len(pars) |->
             IF startswith(pars[i].k, "M0:") THEN Item(pars[i].k, PyInt(0))
             ELSE pars[i]]
    ELSE LET mags == {i \in 1..Len(pars) : startswith(pars[i].k, "M0:")}
             any_mag == \E i \in mags : Num(pars[i].v) # F(0)
             first_mag == CHOOSE i \in mags : \A j \in mags : i <= j
         IN IF ~any_mag /\ mags # {}
            THEN [pars EXCEPT ![first_mag].v = PyFloat(F(8))]
            ELSE pars

---------------------------------------------------------------------------
(* constrain_pars *)

\* name.split('*')[0]
split_first(name, sep) ==
    IF contains(name, sep)
    THEN LET at == CHOOSE i \in 1..Len(name) :
                       /\ SubSeq(name, i, i) = sep
                       /\ \A j \in 1..(i - 1) : SubSeq(name, j, j) # sep
         IN SubSeq(name, 1, at - 1)
    ELSE name

\* np.sqrt(90*np.log(10) + 3*np.log(scale))/q_max with q_max = 1.0, to two
\* decimals, tabulated at the scales the model uses; nan for scale <= 0
\* (min(rg, nan) is rg).
rg_max(scale) ==
    CASE scale = Q(1, 1000) -> Q(1365, 100)
      [] scale = Q(1, 10) -> Q(1415, 100)
      [] scale = F(1) -> Q(1439, 100)
      [] scale = F(10) -> Q(1463, 100)
      [] OTHER -> inf

Done(pars) == [raised |-> "", pars |-> pars]
Raised(what, pars) == [raised |-> what, pars |-> pars]

\* if pars[a] < pars[b]: pars[b] = pars[a], the smaller value lost.
raise_if_less(pars, a, b) ==
    IF QLt(Num(getitem(pars, a)), Num(getitem(pars, b)))
    THEN setitem(pars, a, getitem(pars, b))
    ELSE pars

\* if pars[a] < pars[b]: pars[b], pars[a] = pars[a], pars[b]
swap_if_less(pars, a, b) ==
    IF QLt(Num(getitem(pars, a)), Num(getitem(pars, b)))
    THEN setitem(setitem(pars, b, getitem(pars, a)), a, getitem(pars, b))
    ELSE pars

\* The rpa rule: zero the fractions the case does not use, then divide each
\* fraction by the total.
constrain_rpa_total_first(pars) ==
    LET case_num == Num(getitem(pars, "case_num"))
        total == QAdd(QAdd(QAdd(Num(getitem(pars, "Phi1")),
                                Num(getitem(pars, "Phi2"))),
                           Num(getitem(pars, "Phi3"))),
                      Num(getitem(pars, "Phi4")))
        zeroed == IF QLt(case_num, F(2))
                  THEN setitem(setitem(pars, "Phi1", PyFloat(F(0))), "Phi2", PyFloat(F(0)))
                  ELSE IF QLt(case_num, F(5))
                  THEN setitem(pars, "Phi1", PyFloat(F(0)))
                  ELSE pars
        Divided(c) == PyFloat(QDiv(Num(getitem(zeroed, "Phi" \o c)), total))
    IN IF total = F(0) THEN Raised("ZeroDivisionError", zeroed)
       ELSE Done(setitem(setitem(setitem(setitem(zeroed,
                "Phi1", Divided("1")), "Phi2", Divided("2")),
                "Phi3", Divided("3")), "Phi4", Divided("4")))

constrain_rpa(pars) ==
    LET case_num == Num(getitem(pars, "case_num"))
        zeroed == IF QLt(case_num, F(2))
                  THEN setitem(setitem(pars, "Phi1", PyFloat(F(0))), "Phi2", PyFloat(F(0)))
                  ELSE IF QLt(case_num, F(5))
                  THEN setitem(pars, "Phi1", PyFloat(F(0)))
                  ELSE pars
        total == QAdd(QAdd(QAdd(Num(getitem(zeroed, "Phi1")),
                                Num(getitem(zeroed, "Phi2"))),
                           Num(getitem(zeroed, "Phi3"))),
                      Num(getitem(zeroed, "Phi4")))
        Divided(c) == PyFloat(QDiv(Num(getitem(zeroed, "Phi" \o c)), total))
    IN IF total = F(0) THEN Raised("ZeroDivisionError", zeroed)
       ELSE Done(setitem(setitem(setitem(setitem(zeroed,
                "Phi1", Divided("1")), "Phi2", Divided("2")),
                "Phi3", Divided("3")), "Phi4", Divided("4")))

\* The model identifier the rules are dispatched on.
dispatch_name_whole(model_info) == model_info.id

dispatch_name(model_info) ==
    IF contains(model_info.id, "*") THEN split_first(model_info.id, "*")
    ELSE model_info.id

\* constrain_pars(model_info, pars): pars as the call leaves it, and the
\* exception it raised, if any.
constrain_pars(model_info, pars) ==
    LET name == dispatch_name(model_info)
        pars1 == IF model_info.Iq_callable
                 THEN update(pars, suppress_magnetism(pars, TRUE))
                 ELSE pars
    IN CASE name = "barbell" ->
                Done(swap_if_less(pars1, "radius_bell", "radius"))
         [] name = "capped_cylinder" ->
                Done(swap_if_less(pars1, "radius_cap", "radius"))
         [] name = "guinier" ->
                Done(setitem(pars1, "rg",
                     IF QLt(rg_max(Num(getitem(pars1, "scale"))),
                            Num(getitem(pars1, "rg")))
                     THEN PyFloat(rg_max(Num(getitem(pars1, "scale"))))
                     ELSE getitem(pars1, "rg")))
         [] name = "pearl_necklace" ->
                Done(swap_if_less(pars1, "radius", "thick_string"))
         [] name = "rpa" -> constrain_rpa(pars1)
         [] OTHER -> Done(pars1)

\* The calls of constrain_pars that are tried: a model descriptor (its id and
\* whether its Iq is a Python callable) and a parameter set with the keys
\* the model's rule reads.
RadiusValues == {F(20), Q(5, 2), F(50)}
MomentValues == {F(0), F(3)}
FractionValues == {F(0), Q(1, 4), Q(1, 2)}
CaseNums == {0, 1, 2, 4, 5, 9}
ScaleValues == {Q(1, 1000), Q(1, 10), F(1), F(10)}
RgValues == {F(5), F(14), F(60)}

PairIds ==
    {<<"barbell", "radius_bell">>, <<"barbell*hardsphere", "radius_bell">>,
     <<"capped_cylinder", "radius_cap">>,
     <<"capped_cylinder*hayter_msa", "radius_cap">>,
     <<"pearl_necklace", "thick_string">>,
     <<"pearl_necklace*hardsphere", "thick_string">>,
     <<"sphere", "thickness">>, <<"hardsphere*barbell", "radius_bell">>}

ConstrainPars ==
    {[id |-> m[1],
      pars |-> << Item("scale", PyFloat(F(1))), Item("radius", PyFloat(a)),
                  Item(m[2], PyFloat(b)), Item("M0:sld", PyFloat(mom)),
                  Item("M0:sld_solvent", PyFloat(F(3))) >>] :
        m \in PairIds, a \in RadiusValues, b \in RadiusValues,
        mom \in MomentValues}
    \cup
    {[id |-> "guinier",
      pars |-> << Item("scale", PyFloat(sc)), Item("rg", PyFloat(rg)) >>] :
        sc \in ScaleValues, rg \in RgValues}
    \cup
    {[id |-> "rpa",
      pars |-> << Item("case_num", PyInt(c)), Item("Phi1", PyFloat(f[1])),
                  Item("Phi2", PyFloat(f[2])), Item("Phi3", PyFloat(f[3])),
                  Item("Phi4", PyFloat(f[4])) >>] :
        c \in CaseNums, f \in [1..4 -> FractionValues]}

InitConstrain ==
    /\ IdleSeed
    /\ pc = "call"
    /\ \E c \in ConstrainPars, callable \in BOOLEAN :
           args = [model_info |-> [id |-> c.id, Iq_callable |-> callable],
                   pars |-> c.pars]
    /\ ret = <<>>

CallConstrainPars ==
    /\ pc = "call"
    /\ ret' = constrain_pars(args.model_info, args.pars)
    /\ pc' = IF ret'.raised = "" THEN "returned" ELSE "raised"
    /\ UNCHANGED <<args, seedVars>>

NextConstrain == CallConstrainPars

SpecConstrain == InitConstrain /\ [][NextConstrain]_vars

\* The value of key k before and after the call.
Before(k) == Num(getitem(args.pars, k))
After(k) == Num(getitem(ret.pars, k))

\* C6: after constrain_pars on barbell, capped_cylinder or pearl_necklace, or
\* on a product model whose first component is one of them, the outer value
\* is at least the inner one: radius_bell >= radius, radius_cap >= radius,
\* radius >= thick_string.
C6_OuterAtLeastInner ==
    pc = "returned" =>
        /\ args.model_info.id \in {"barbell", "barbell*hardsphere"} =>
               QLe(After("radius"), After("radius_bell"))
        /\ args.model_info.id \in {"capped_cylinder", "capped_cylinder*hayter_msa"} =>
               QLe(After("radius"), After("radius_cap"))
        /\ args.model_info.id \in {"pearl_necklace", "pearl_necklace*hardsphere"} =>
               QLe(After("thick_string"), After("radius"))

\* A product model whose cap radius was below the cylinder radius before the
\* repair.
C6_Witness ==
    /\ pc = "returned"
    /\ args.model_info.id = "capped_cylinder*hayter_msa"
    /\ QLt(Before("radius_cap"), Before("radius"))
    /\ QLt(After("radius"), After("radius_cap"))

\* The fractions the case keeps.
C7_Kept(case_num) ==
    IF case_num < 2 THEN {"Phi3", "Phi4"}
    ELSE IF case_num < 5 THEN {"Phi2", "Phi3", "Phi4"}
    ELSE {"Phi1", "Phi2", "Phi3", "Phi4"}

\* C7: after constrain_pars on rpa with positive fractions, Phi1 = Phi2 = 0
\* when case_num < 2, Phi1 = 0 when 2 <= case_num < 5, the other fractions
\* keep their ratios, and the four fractions sum to 1.
C7_FractionsNormalized ==
    (/\ pc # "call"
     /\ args.model_info.id = "rpa"
     /\ \A k \in {"Phi1", "Phi2", "Phi3", "Phi4"} : QLt(F(0), Before(k))) =>
        LET case_num == getitem(args.pars, "case_num").n IN
        /\ pc = "returned"
        /\ \A k \in {"Phi1", "Phi2", "Phi3", "Phi4"} \ C7_Kept(case_num) :
               After(k) = F(0)
        /\ \A j, k \in C7_Kept(case_num) :
               QMul(After(j), Before(k)) = QMul(After(k), Before(j))
        /\ QAdd(QAdd(After("Phi1"), After("Phi2")),
                QAdd(After("Phi3"), After("Phi4"))) = F(1)

\* Case 1 with unequal positive fractions: two are zeroed, two rescaled.
C7_Witness ==
    /\ pc = "returned"
    /\ args.model_info.id = "rpa"
    /\ getitem(args.pars, "case_num").n = 1
    /\ \A k \in {"Phi1", "Phi2", "Phi3", "Phi4"} : QLt(F(0), Before(k))
    /\ Before("Phi3") # Before("Phi4")
    /\ After("Phi1") = F(0)
    /\ After("Phi3") # Before("Phi3")

---------------------------------------------------------------------------
(* suppress_pd *)

\* p[:-2]
drop2(p) == SubSeq(p, 1, Len(p) - 2)

\* suppress_pd without the width: only the count of the first *_pd_n key is
\* set.
suppress_pd_count_only(pars, suppress) ==
    IF suppress
    THEN [i \in 1..Len(pars) |->
             IF endswith(pars[i].k, "_pd_n") THEN Item(pars[i].k, PyInt(0))
             ELSE pars[i]]
    ELSE LET pds == {i \in 1..Len(pars) : endswith(pars[i].k, "_pd_n")}
             any_pd == \E i \in pds :
                           /\ Num(pars[i].v) # F(0)
                           /\ Num(get(pars, drop2(pars[i].k), PyFloat(F(0)))) # F(0)
             first_pd == pars[CHOOSE i \in pds : \A j \in pds : i <= j].k
         IN IF ~any_pd /\ pds # {} /\ Num(getitem(pars, first_pd)) = F(0)
            THEN setitem(pars, first_pd, PyInt(35))
            ELSE pars

suppress_pd(pars, suppress) ==
    IF suppress
    THEN [i \in 1..Len(pars) |->
             IF endswith(pars[i].k, "_pd_n") THEN Item(pars[i].k, PyInt(0))
             ELSE pars[i]]
    ELSE LET pds == {i \in 1..Len(pars) : endswith(pars[i].k, "_pd_n")}
             any_pd == \E i \in pds :
                           /\ Num(pars[i].v) # F(0)
                           /\ Num(get(pars, drop2(pars[i].k), PyFloat(F(0)))) # F(0)
             first_pd == pars[CHOOSE i \in pds : \A j \in pds : i <= j].k
             pars1 == IF Num(getitem(pars, first_pd)) = F(0)
                      THEN setitem(pars, first_pd, PyInt(35))
                      ELSE pars
         IN IF ~any_pd /\ pds # {}
            THEN IF \/ drop2(first_pd) \notin keys(pars1)
                    \/ Num(getitem(pars1, drop2(first_pd))) = F(0)
                 THEN setitem(pars1, drop2(first_pd), PyFloat(Q(15, 100)))
                 ELSE pars1
            ELSE pars

---------------------------------------------------------------------------
(* Calculators, time_calculation and run_models *)

\* A calculator: its engine tag, whether calling it raises ImportError (its
\* backend is missing at call time), and the array it returns otherwise.
\* NoCalculator is None in opts['engines'].
NoCalculator == [engine |-> "None", fails |-> FALSE, out |-> <<>>]

\* One call calculator(**pars), as the calculator sees it.
Call(calculator, pars) == [engine |-> calculator.engine, pars |-> pars]

Repeat(x, n) == [i \in 1..n |-> x]

\* time_calculation with suppress_pd(pars) working on pars itself instead of
\* on a copy: every later call sees the suppressed parameters.
time_calculation_in_place(calculator, pars, evals, elapsed) ==
    LET after == IF evals > 1 THEN suppress_pd(pars, TRUE) ELSE pars
        warmup == IF evals > 1 THEN <<Call(calculator, after)>> ELSE <<>>
        timed == Repeat(Call(calculator, after),
                        1 + (IF evals > 1 THEN evals - 1 ELSE 0))
    IN IF calculator.fails
       THEN [raised |-> "ImportError", value |-> <<>>, average_time |-> F(0),
             calls |-> IF evals > 1 THEN warmup ELSE <<Call(calculator, pars)>>,
             pars |-> after]
       ELSE IF evals = 0
       THEN [raised |-> "ZeroDivisionError", value |-> <<>>,
             average_time |-> F(0), calls |-> warmup \o timed, pars |-> after]
       ELSE [raised |-> "", value |-> calculator.out,
             average_time |-> QDiv(QMul(elapsed, F(1000)), F(evals)),
             calls |-> warmup \o timed, pars |-> after]

\* time_calculation(calculator, pars, evals) with `elapsed` the wall-clock
\* time toc() measures, in seconds: the calls made in their order, the value
\* and average time returned or the exception raised, and the caller's pars
\* as the call leaves it.
time_calculation(calculator, pars, evals, elapsed) ==
    LET warmup == IF evals > 1 THEN <<Call(calculator, suppress_pd(pars, TRUE))>>
                  ELSE <<>>
        timed == Repeat(Call(calculator, pars),
                        1 + (IF evals > 1 THEN evals - 1 ELSE 0))
    IN IF calculator.fails
       THEN [raised |-> "ImportError", value |-> <<>>, average_time |-> F(0),
             calls |-> IF evals > 1 THEN warmup ELSE <<Call(calculator, pars)>>,
             pars |-> pars]
       ELSE IF evals = 0
       THEN [raised |-> "ZeroDivisionError", value |-> <<>>,
             average_time |-> F(0), calls |-> warmup \o timed, pars |-> pars]
       ELSE [raised |-> "", value |-> calculator.out,
             average_time |-> QDiv(QMul(elapsed, F(1000)), F(evals)),
             calls |-> warmup \o timed, pars |-> pars]

\* Python's None where a masked array or a time is expected.
NoArray == [none |-> TRUE, data |-> <<>>, mask |-> <<>>]
NoTime == [none |-> TRUE, ms |-> F(0)]
Time(ms) == [none |-> FALSE, ms |-> ms]

\* np.ma.masked_invalid(raw)
masked_invalid(raw) ==
    [none |-> FALSE, data |-> raw,
     mask |-> [i \in 1..Len(raw) |-> ~isfinite(raw[i])]]

\* a - b on masked arrays: masked where either is, the data of a kept there.
masked_subtract(a, b) ==
    [none |-> FALSE,
     data |-> [i \in 1..Len(a.data) |->
                  IF a.mask[i] \/ b.mask[i] THEN a.data[i]
                  ELSE FSub(a.data[i], b.data[i])],
     mask |-> [i \in 1..Len(a.data) |-> a.mask[i] \/ b.mask[i]]]

\* The denominator without abs(): np.where(comp_value != 0., comp_value, 1.0)
where_nonzero(comp_value) ==
    [i \in 1..Len(comp_value.data) |->
        IF comp_value.data[i] # F(0) THEN comp_value.data[i] ELSE F(1)]

\* np.where(comp_value != 0., abs(comp_value), 1.0)
where_nonzero_abs(comp_value) ==
    [i \in 1..Len(comp_value.data) |->
        IF comp_value.data[i] # F(0) THEN FAbs(comp_value.data[i]) ELSE F(1)]

\* A division that masks the non-finite quotients only, forgetting the mask
\* of resid.
masked_divide_unmasked(resid, denominator) ==
    LET quotient == [i \in 1..Len(resid.data) |->
                        FDiv(resid.data[i], denominator[i])]
    IN [none |-> FALSE,
        data |-> [i \in 1..Len(resid.data) |->
                     IF ~isfinite(quotient[i])
                     THEN resid.data[i] ELSE quotient[i]],
        mask |-> [i \in 1..Len(resid.data) |-> ~isfinite(quotient[i])]]

\* resid / denominator on a masked array: a non-finite quotient is masked.
masked_divide(resid, denominator) ==
    LET quotient == [i \in 1..Len(resid.data) |->
                        FDiv(resid.data[i], denominator[i])]
    IN [none |-> FALSE,
        data |-> [i \in 1..Len(resid.data) |->
                     IF resid.mask[i] \/ ~isfinite(quotient[i])
                     THEN resid.data[i] ELSE quotient[i]],
        mask |-> [i \in 1..Len(resid.data) |->
                     resid.mask[i] \/ ~isfinite(quotient[i])]]

\* err.compressed(): the unmasked entries, in their order
compressed(err) ==
    LET kept == SelectSeq([i \in 1..Len(err.data) |-> i],
                          LAMBDA i : ~err.mask[i])
    IN [j \in 1..Len(kept) |-> err.data[kept[j]]]

\* abs(a), entry by entry
abs(a) == [i \in 1..Len(a) |-> FAbs(a[i])]

\* x put into the ascending list a at its place
insort_float(a, x) ==
    LET i == Cardinality({j \in 1..Len(a) : QLe(a[j], x)})
    IN SubSeq(a, 1, i) \o <<x>> \o SubSeq(a, i + 1, Len(a))

\* np.sort(a)
RECURSIVE sort(_)
sort(a) ==
    IF a = <<>> THEN <<>>
    ELSE insort_float(sort(SubSeq(a, 1, Len(a) - 1)), a[Len(a)])

RECURSIVE sum(_)
sum(a) == IF a = <<>> THEN F(0) ELSE QAdd(a[1], sum(Tail(a)))

\* np.mean(a)
mean(a) == QDiv(sum(a), F(Len(a)))

\* a**2, entry by entry
squared(a) == [i \in 1..Len(a) |-> QMul(a[i], a[i])]

\* The line _print_stats prints for the sorted errors: "no valid values", or
\* the statistics, as numbers before "%.3e" formats them.  The rms is
\* np.sqrt of mean_square.
NoValidValues(sorted_err) ==
    [valid |-> FALSE, sorted_err |-> sorted_err, max |-> F(0), median |-> F(0),
     p98 |-> F(0), mean_square |-> F(0), zero_offset |-> F(0)]

\* The statistics with the percentile indices taken on the count, not on
\* the count less one.
stats_line_on_count(sorted_err) ==
    IF Len(sorted_err) = 0 THEN NoValidValues(sorted_err)
    ELSE [valid |-> TRUE, sorted_err |-> sorted_err,
          max |-> sorted_err[Len(sorted_err)],
          median |-> sorted_err[int(QMul(F(Len(sorted_err)), Q(50, 100))) + 1],
          p98 |-> sorted_err[int(QMul(F(Len(sorted_err) - 1), Q(98, 100))) + 1],
          mean_square |-> mean(squared(sorted_err)),
          zero_offset |-> mean(sorted_err)]

stats_line(sorted_err) ==
    IF Len(sorted_err) = 0 THEN NoValidValues(sorted_err)
    ELSE [valid |-> TRUE, sorted_err |-> sorted_err,
          max |-> sorted_err[Len(sorted_err)],
          median |-> sorted_err[int(QMul(F(Len(sorted_err) - 1), Q(50, 100))) + 1],
          p98 |-> sorted_err[int(QMul(F(Len(sorted_err) - 1), Q(98, 100))) + 1],
          mean_square |-> mean(squared(sorted_err)),
          zero_offset |-> mean(sorted_err)]

\* _print_stats(label, err)
_print_stats(err) == stats_line(sort(abs(compressed(err))))

\* run_models(opts, verbose): the dict returned, or the exception that
\* escapes, the calculator calls made and the statistics lines printed.
RunResult(raised, calls, bv, cv, bt, ct, resid, relerr, printed) ==
    [raised |-> raised, calls |-> calls,
     base_value |-> bv, comp_value |-> cv, base_time |-> bt, comp_time |-> ct,
     resid |-> resid, relerr |-> relerr, printed |-> printed]

\* The end of run_models when both forms were computed.
compared(calls, bv, cv, bt, ct, resid, relerr, verbose) ==
    RunResult("", calls, bv, cv, bt, ct, resid, relerr,
              IF verbose THEN <<_print_stats(resid), _print_stats(relerr)>>
              ELSE <<>>)

\* The calls with the two calculators taking turns.
calls_in_turn(b, c) ==
    [i \in 1..(Len(b.calls) + Len(c.calls)) |->
        IF i <= 2 * Len(c.calls) /\ i <= 2 * Len(b.calls)
        THEN (IF i % 2 = 1 THEN b.calls[(i + 1) \div 2] ELSE c.calls[i \div 2])
        ELSE IF Len(b.calls) < Len(c.calls) THEN c.calls[i - Len(b.calls)]
        ELSE b.calls[i - Len(c.calls)]]

\* The calls in the order run_models makes them: those of the base
\* calculation, which is over before the comparison calculation starts.
calls_in_order(b, c) == b.calls \o c.calls

run_models(opts) ==
    LET base == opts.engines[1]
        comp == opts.engines[2]
        comparison == comp # NoCalculator
        b == time_calculation(base, opts.pars[1], opts.count[1], opts.elapsed)
        base_value == IF b.raised = "" THEN masked_invalid(b.value) ELSE NoArray
        base_time == IF b.raised = "" THEN Time(b.average_time) ELSE NoTime
        c == time_calculation(comp, opts.pars[2], opts.count[2], opts.elapsed)
        comp_value == IF c.raised = "" THEN masked_invalid(c.value) ELSE NoArray
        comp_time == IF c.raised = "" THEN Time(c.average_time) ELSE NoTime
        resid == masked_subtract(base_value, comp_value)
        relerr == masked_divide(resid, where_nonzero_abs(comp_value))
    IN IF b.raised \notin {"", "ImportError"}
       THEN RunResult(b.raised, b.calls, NoArray, NoArray, NoTime, NoTime,
                      NoArray, NoArray, <<>>)
       ELSE IF ~comparison
       THEN RunResult("", b.calls, base_value, NoArray, base_time, NoTime,
                      NoArray, NoArray, <<>>)
       ELSE IF c.raised \notin {"", "ImportError"}
       THEN RunResult(c.raised, calls_in_order(b, c), base_value, NoArray,
                      base_time, NoTime, NoArray, NoArray, <<>>)
       ELSE IF base_value.none \/ comp_value.none
       THEN RunResult("TypeError", calls_in_order(b, c), base_value, comp_value,
                      base_time, comp_time, NoArray, NoArray, <<>>)
       ELSE compared(calls_in_order(b, c), base_value, comp_value,
                     base_time, comp_time, resid, relerr, opts.verbose)

\* The calls of run_models that are tried.
OutputValues == {F(0), F(-2), nan, inf}
Outputs == [1..GridLen -> OutputValues]

RunPars ==
    << Item("radius", PyFloat(F(20))), Item("radius_pd", PyFloat(Q(1, 10))),
       Item("radius_pd_n", PyInt(35)) >>

BaseCalculators ==
    {[engine |-> "OCL32", fails |-> f, out |-> IF f THEN <<>> ELSE o] :
        f \in BOOLEAN, o \in Outputs}

CompCalculators ==
    {[engine |-> "OMP64", fails |-> f, out |-> IF f THEN <<>> ELSE o] :
        f \in BOOLEAN, o \in Outputs}
    \cup {NoCalculator}

InitRun ==
    /\ IdleSeed
    /\ pc = "call"
    /\ \E base \in BaseCalculators, comp \in CompCalculators,
          base_n \in 0..MaxEvals, comp_n \in 0..MaxEvals, verbose \in BOOLEAN :
           args = [engines |-> <<base, comp>>, count |-> <<base_n, comp_n>>,
                   pars |-> <<RunPars, RunPars>>, elapsed |-> Q(3, 1000),
                   verbose |-> verbose]
    /\ ret = <<>>

CallRunModels ==
    /\ pc = "call"
    /\ ret' = run_models(args)
    /\ pc' = IF ret'.raised = "" THEN "returned" ELSE "raised"
    /\ UNCHANGED <<args, seedVars>>

NextRun == CallRunModels

SpecRun == InitRun /\ [][NextRun]_vars

\* C5: with a base and a comparison calculator of which exactly one is
\* unavailable when called, run_models returns normally with the other
\* side's value and time set and the failed side's value None.
C5_OneSideUnavailable ==
    (/\ pc # "call"
     /\ args.engines[2] # NoCalculator
     /\ args.engines[1].fails # args.engines[2].fails
     /\ args.count[1] >= 1 /\ args.count[2] >= 1) =>
        /\ pc = "returned"
        /\ IF args.engines[1].fails
           THEN /\ ret.base_value.none
                /\ ~ret.comp_value.none /\ ~ret.comp_time.none
           ELSE /\ ret.comp_value.none
                /\ ~ret.base_value.none /\ ~ret.base_time.none

\* Both calculators were there, neither raised, and each ran at least once.
BothPresent ==
    /\ pc # "call"
    /\ args.engines[2] # NoCalculator
    /\ ~args.engines[1].fails /\ ~args.engines[2].fails
    /\ args.count[1] >= 1 /\ args.count[2] >= 1

Grid == 1..GridLen
BaseOut(i) == args.engines[1].out[i]
CompOut(i) == args.engines[2].out[i]

\* C13: with both sides present, at every index unmasked on both sides
\* resid is base - comp, and relerr is resid/|comp| where comp is not 0 and
\* resid itself where comp is exactly 0, never masked as infinite or
\* undefined.
C13_ResidualAndRelativeError ==
    BothPresent =>
        /\ pc = "returned"
        /\ \A i \in Grid :
              (isfinite(BaseOut(i)) /\ isfinite(CompOut(i))) =>
                 /\ ~ret.resid.mask[i]
                 /\ ret.resid.data[i] = QSub(BaseOut(i), CompOut(i))
                 /\ ~ret.relerr.mask[i]
                 /\ isfinite(ret.relerr.data[i])
                 /\ IF CompOut(i) = F(0)
                    THEN ret.relerr.data[i] = ret.resid.data[i]
                    ELSE QMul(ret.relerr.data[i], FAbs(CompOut(i)))
                            = ret.resid.data[i]

\* A zero comparison value under a base value of -2 gave the relative error
\* -2, and a comparison value of -2 under a base value of 0 gave 1.
C13_Witness ==
    /\ pc = "returned"
    /\ BothPresent
    /\ BaseOut(1) = F(-2) /\ CompOut(1) = F(0)
    /\ ret.relerr.data[1] = F(-2) /\ ~ret.relerr.mask[1]
    /\ BaseOut(2) = F(0) /\ CompOut(2) = F(-2)
    /\ ret.relerr.data[2] = F(1) /\ ~ret.relerr.mask[2]

\* The indices of the masked array a that are not masked.
Unmasked(a) == {i \in 1..Len(a.data) : ~a.mask[i]}

\* line is what _print_stats prints for the unmasked entries of a alone.
StatsOverUnmasked(line, a) ==
    /\ line.valid = (Unmasked(a) # {})
    /\ Len(line.sorted_err) = Cardinality(Unmasked(a))
    /\ \A x \in {FAbs(a.data[i]) : i \in Unmasked(a)} :
          Cardinality({j \in 1..Len(line.sorted_err) : line.sorted_err[j] = x})
              = Cardinality({i \in Unmasked(a) : FAbs(a.data[i]) = x})

\* C14: NaN and Inf outputs of either calculator do not raise: they are
\* masked, an index masked on either side is masked in resid and relerr, and
\* the statistics printed are those of the unmasked entries only, "no valid
\* values" when every entry is masked.
C14_NonFiniteMasked ==
    BothPresent =>
        /\ pc = "returned"
        /\ \A i \in Grid :
              /\ ret.base_value.mask[i] = ~isfinite(BaseOut(i))
              /\ ret.comp_value.mask[i] = ~isfinite(CompOut(i))
              /\ (ret.base_value.mask[i] \/ ret.comp_value.mask[i]) =>
                    (ret.resid.mask[i] /\ ret.relerr.mask[i])
        /\ args.verbose =>
              /\ Len(ret.printed) = 2
              /\ StatsOverUnmasked(ret.printed[1], ret.resid)
              /\ StatsOverUnmasked(ret.printed[2], ret.relerr)
              /\ (\A i \in Grid : ret.resid.mask[i]) =>
                    (~ret.printed[1].valid /\ ~ret.printed[2].valid)

\* One index held NaN or Inf and was masked, the other was unmasked and alone
\* made the statistics.
C14_Witness ==
    /\ pc = "returned"
    /\ BothPresent
    /\ args.verbose
    /\ BaseOut(1) = inf /\ CompOut(1) = F(0) /\ ret.relerr.mask[1]
    /\ BaseOut(2) = F(-2) /\ CompOut(2) = F(0)
    /\ ret.printed[1].sorted_err = <<F(2)>>

\* Every index held NaN or Inf on one side: "no valid values".
C14_WitnessAllMasked ==
    /\ pc = "returned"
    /\ BothPresent
    /\ args.verbose
    /\ \A i \in Grid : ~isfinite(BaseOut(i)) \/ ~isfinite(CompOut(i))
    /\ ~ret.printed[1].valid

---------------------------------------------------------------------------
(* More of str and float, for the randomizer. *)

\* The characters of parameter names in code-point order, and ord(c).
Alphabet == "*0123456789:ABCDEFGHIJKLMNOPQRSTUVWXYZ_abcdefghijklmnopqrstuvwxyz"
ord(c) == CHOOSE i \in 1..Len(Alphabet) : SubSeq(Alphabet, i, i) = c

\* a < b on str
RECURSIVE str_lt(_, _)
str_lt(a, b) ==
    IF b = "" THEN FALSE
    ELSE IF a = "" THEN TRUE
    ELSE IF SubSeq(a, 1, 1) # SubSeq(b, 1, 1)
    THEN ord(SubSeq(a, 1, 1)) < ord(SubSeq(b, 1, 1))
    ELSE str_lt(SubSeq(a, 2, Len(a)), SubSeq(b, 2, Len(b)))

\* str(i) for i >= 0
RECURSIVE str(_)
str(i) ==
    IF i < 10 THEN SubSeq("0123456789", i + 1, i + 1)
    ELSE str(i \div 10) \o SubSeq("0123456789", (i % 10) + 1, (i % 10) + 1)

\* 10**k for an integer k
RECURSIVE pow10int(_)
pow10int(k) ==
    IF k = 0 THEN F(1)
    ELSE IF k > 0 THEN QMul(F(10), pow10int(k - 1))
    ELSE QMul(Q(1, 10), pow10int(k + 1))

\* 10**x: exact at the integers, 10**0.5 taken as 3.16, linear in between.
pow10(x) ==
    LET h == (2 * x.n) \div x.d
        frac == QSub(QMul(F(2), x), F(h))
        HalfDecade(j) == QMul(pow10int(j \div 2),
                              IF j % 2 = 1 THEN Q(316, 100) ELSE F(1))
    IN QAdd(HalfDecade(h),
            QMul(QSub(HalfDecade(h + 1), HalfDecade(h)), frac))

---------------------------------------------------------------------------
(* numpy.random's distributions.  Each draws from the generator state st;  *)
(* the caller advances the state.                                          *)

\* np.random.rand(): a float in [0, 1)
rand(st) == Q(Raw(st), RawRange)

\* np.random.uniform(low, high)
uniform(st, low, high) == QAdd(low, QMul(QSub(high, low), rand(st)))

\* np.random.beta(a, b): a float in [0, 1); the shape of the distribution
\* is not modelled, only its scale 2a/(a+b).
beta(st, a, b) == QMul(rand(st), QDiv(QAdd(a, a), QAdd(a, b)))

\* np.random.randn(): a float, here within three standard deviations.
randn(st) == QSub(QMul(F(6), rand(st)), F(3))

\* np.random.randint(low, high): an integer in low..high-1
randint2(st, low, high) == low + (Raw(st) % (high - low))

---------------------------------------------------------------------------
(* Model descriptors (ModelInfo) *)

Par(name, default, limits, type) ==
    [name |-> name, default |-> default, limits |-> limits, type |-> type,
     length |-> 1,
     length_control |-> "", polydisperse |-> type \in {"volume", "orientation"}]

\* models/polymer_micelle.py
polymer_micelle ==
    [id |-> "polymer_micelle", Iq_callable |-> FALSE, random |-> "polymer_micelle",
     parameters |-> <<
        Par("ndensity", PyFloat(Q(894, 100)), <<F(0), inf>>, ""),
        Par("v_core", PyFloat(F(62624)), <<F(0), inf>>, ""),
        Par("v_corona", PyFloat(F(61940)), <<F(0), inf>>, ""),
        Par("sld_solvent", PyFloat(Q(64, 10)), <<F(0), inf>>, "sld"),
        Par("sld_core", PyFloat(Q(34, 100)), <<F(0), inf>>, "sld"),
        Par("sld_corona", PyFloat(Q(8, 10)), <<F(0), inf>>, "sld"),
        Par("radius_core", PyFloat(F(45)), <<F(0), inf>>, ""),
        Par("rg", PyFloat(F(20)), <<F(0), inf>>, ""),
        Par("d_penetration", PyFloat(F(1)), <<neginf, inf>>, ""),
        Par("n_aggreg", PyFloat(F(6)), <<neginf, inf>>, "") >>]

\* models/_py_parallelepiped.py, with the magnetic moment of its sld.
parallelepiped ==
    [id |-> "parallelepiped", Iq_callable |-> TRUE, random |-> "None",
     parameters |-> <<
        Par("sld", PyInt(4), <<neginf, inf>>, "sld"),
        Par("sld_solvent", PyInt(1), <<neginf, inf>>, "sld"),
        Par("length_a", PyInt(35), <<F(0), inf>>, "volume"),
        Par("length_b", PyInt(75), <<F(0), inf>>, "volume"),
        Par("length_c", PyInt(400), <<F(0), inf>>, "volume"),
        Par("theta", PyInt(60), <<F(-360), F(360)>>, "orientation"),
        Par("phi", PyInt(60), <<F(-360), F(360)>>, "orientation"),
        Par("psi", PyInt(60), <<F(-360), F(360)>>, "orientation"),
        Par("M0:sld", PyFloat(F(0)), <<neginf, inf>>, "magnetic") >>]

\* A descriptor with a choice-list parameter of k choices and a vector
\* parameter whose length another parameter controls.
multi_shell(k) ==
    [id |-> "multi_shell", Iq_callable |-> FALSE, random |-> "None",
     parameters |-> <<
        Par("case_num", PyInt(0), [i \in 1..k |-> F(i - 1)], ""),
        Par("n", PyInt(1), <<F(1), F(3)>>, "volume"),
        [name |-> "thickness", default |-> PyFloat(F(10)), limits |-> <<F(0), inf>>, type |-> "volume",
         length |-> 3, length_control |-> "n", polydisperse |-> TRUE],
        Par("volfraction", PyFloat(Q(1, 2)), <<F(0), F(1)>>, "") >>]

\* model_info.parameters[name]
parameter(model_info, name) ==
    model_info.parameters[
        CHOOSE i \in 1..Len(model_info.parameters) :
            model_info.parameters[i].name = name]

---------------------------------------------------------------------------
(* Positive floats to three significant decimal digits: m * 10**e with m   *)
(* in 100..999.  The products and cubes of a model's random() exceed the   *)
(* integers of the exact rationals above, so they are computed here, with  *)
(* each operation truncating its result as a float operation rounds it.    *)

RECURSIVE Norm(_, _)
Norm(m, e) ==
    IF m = 0 THEN [m |-> 0, e |-> 0]
    ELSE IF m >= 1000 THEN Norm(m \div 10, e + 1)
    ELSE IF m < 100 THEN Norm(m * 10, e - 1)
    ELSE [m |-> m, e |-> e]

RECURSIVE ipow10(_)
ipow10(k) == IF k = 0 THEN 1 ELSE 10 * ipow10(k - 1)

D(i) == Norm(i, 0)
DMul(a, b) == Norm(a.m * b.m, a.e + b.e)
DDiv(a, b) == Norm((a.m * 100000) \div b.m, a.e - b.e - 5)
DAdd(a, b) ==
    LET hi == IF a.e >= b.e THEN a ELSE b
        lo == IF a.e >= b.e THEN b ELSE a
    IN IF lo.m = 0 \/ hi.e - lo.e > 5 THEN hi
       ELSE Norm(hi.m * ipow10(hi.e - lo.e) + lo.m, lo.e)
DCube(a) == DMul(a, DMul(a, a))

\* the integer square root of k, sought in lo..hi
RECURSIVE isqrt(_, _, _)
isqrt(k, lo, hi) ==
    IF lo >= hi THEN lo
    ELSE LET mid == (lo + hi + 1) \div 2
         IN IF mid * mid <= k THEN isqrt(k, mid, hi) ELSE isqrt(k, lo, mid - 1)

\* np.sqrt
DSqrt(a) ==
    IF a.e % 2 = 0
    THEN Norm(isqrt(a.m * 10000, 0, 10000), (a.e - 4) \div 2)
    ELSE Norm(isqrt(a.m * 100000, 0, 10000), (a.e - 5) \div 2)

\* a positive rational as a three-digit float, and back
RECURSIVE QtoD_(_, _, _)
QtoD_(n, d, e) ==
    IF n = 0 THEN [m |-> 0, e |-> 0]
    ELSE IF n \div d >= 1000 THEN QtoD_(n, d * 10, e + 1)
    ELSE IF n \div d < 100 THEN QtoD_(n * 10, d, e - 1)
    ELSE [m |-> n \div d, e |-> e]
QtoD(x) == QtoD_(x.n, x.d, 0)
DtoQ(a) == IF a.e >= 0 THEN F(a.m * ipow10(a.e)) ELSE Q(a.m, ipow10(-a.e))

pi == [m |-> 314, e |-> -2]

---------------------------------------------------------------------------
(* models/polymer_micelle.py: random() *)

\* The hook's parameters and the generator state it leaves.
polymer_micelle_random(st) ==
    LET st1 == Step(st)
        st2 == Step(st1)
        st3 == Step(st2)
        st4 == Step(st3)
        radius_core == QtoD(pow10(uniform(st, F(1), F(3))))
        rg == DMul(radius_core, QtoD(pow10(uniform(st1, F(-2), Q(-3, 10)))))
        d_penetration == QAdd(QMul(randn(st2), Q(5, 100)), F(1))
        n_aggreg == randint2(st3, 3, 30)
        v_core == DMul(DDiv(DMul(DDiv(DMul(D(4), pi), D(3)), DCube(radius_core)),
                            D(n_aggreg)),
                       [m |-> 680, e |-> -3])
        tail_segments == randint2(st4, 6, 30)
        v_corona == DMul(DMul(pi, DCube(rg)), DSqrt(DDiv(D(6), D(tail_segments))))
        V == DMul(DDiv(DMul(D(4), pi), D(3)), DCube(DAdd(radius_core, rg)))
    IN [pars |-> << Item("background", PyInt(0)),
                    Item("scale", PyFloat(DtoQ(DDiv([m |-> 100, e |-> 5], V)))),
                    Item("ndensity", PyFloat(Q(894, 100))),
                    Item("v_core", PyFloat(DtoQ(v_core))),
                    Item("v_corona", PyFloat(DtoQ(v_corona))),
                    Item("radius_core", PyFloat(DtoQ(radius_core))),
                    Item("rg", PyFloat(DtoQ(rg))),
                    Item("d_penetration", PyFloat(d_penetration)),
                    Item("n_aggreg", PyInt(n_aggreg)) >>,
        rng |-> Step(st4)]

\* model_info.random()
random(model_info, st) ==
    IF model_info.random = "polymer_micelle" THEN polymer_micelle_random(st)
    ELSE [pars |-> <<>>, rng |-> st]

---------------------------------------------------------------------------
(* _randomize_one *)

Value(v, st) == [raised |-> "", v |-> v, rng |-> st]
KeyError(st) == [raised |-> "KeyError", v |-> PyInt(0), rng |-> st]

has_parameter(model_info, name) ==
    \E i \in 1..Len(model_info.parameters) : model_info.parameters[i].name = name

\* np.random.uniform(*limits)
uniform_limits(st, limits) ==
    IF Len(limits) = 0 THEN uniform(st, F(0), F(1))
    ELSE IF Len(limits) = 1 THEN uniform(st, limits[1], F(1))
    ELSE uniform(st, limits[1], limits[2])

\* The value drawn for pars[name] and the generator state after the draw.
_randomize_one(model_info, name, value, st) ==
    IF endswith(name, "_pd")
    THEN IF ~has_parameter(model_info, SubSeq(name, 1, Len(name) - 3))
         THEN KeyError(st)
         ELSE LET par == parameter(model_info, SubSeq(name, 1, Len(name) - 3))
              IN IF par.type = "orientation"
                 THEN Value(PyFloat(QMul(F(180), beta(st, Q(5, 2), F(20)))), Step(st))
                 ELSE Value(PyFloat(beta(st, Q(3, 2), F(7))), Step(st))
    ELSE IF endswith(name, "_pd_n") THEN Value(PyInt(0), st)
    ELSE IF endswith(name, "_pd_type") THEN Value(PyStr("gaussian"), st)
    ELSE IF endswith(name, "_pd_nsigma") THEN Value(PyFloat(F(3)), st)
    ELSE IF name = "background"
    THEN Value(PyFloat(pow10(uniform(st, F(-2), F(0)))), Step(st))
    ELSE IF name = "scale"
    THEN Value(PyFloat(pow10(uniform(st, F(-3), Q(-1, 2)))), Step(st))
    ELSE IF ~has_parameter(model_info, name) THEN KeyError(st)
    ELSE LET par == parameter(model_info, name)
             range == parameter_range(par.name, Num(value))
         IN IF Len(par.limits) > 2
            THEN Value(PyInt(randint(st, Len(par.limits))), Step(st))
            ELSE IF \A i \in 1..Len(par.limits) : isfinite(par.limits[i])
            THEN Value(PyFloat(uniform_limits(st, par.limits)), Step(st))
            ELSE IF par.type = "sld"
            THEN Value(PyFloat(uniform(st, Q(-1, 2), F(12))), Step(st))
            ELSE IF startswith(par.name, "M0:")
            THEN Value(PyFloat(uniform(st, F(0), F(5))), Step(st))
            ELSE IF /\ par.type = "volume"
                    /\ \/ contains(par.name, "length")
                       \/ contains(par.name, "radius")
                       \/ contains(par.name, "thick")
            THEN Value(PyFloat(pow10(uniform(st, F(2), F(4)))), Step(st))
            ELSE IF range.raised # ""
            THEN [raised |-> range.raised, v |-> PyInt(0), rng |-> st]
            ELSE Value(PyFloat(uniform(st, max(par.limits[1], range.low),
                                       min(par.limits[2], range.high))),
                       Step(st))

---------------------------------------------------------------------------
(* _random_pd *)

\* np.random.choice(n): an index in 0..n-1
choice(st, n) == Raw(st) % n

\* [name + str(k) for k in range(n)]: the elements counted from zero.
numbered_from_zero(name, n) ==
    [k \in 1..(IF n > 0 THEN n ELSE 0) |-> name \o str(k - 1)]

\* [name + str(k+1) for k in range(n)]
numbered(name, n) == [k \in 1..(IF n > 0 THEN n ELSE 0) |-> name \o str(k)]

\* The names of the volume parameters that can be polydisperse.
RECURSIVE pd_volume(_, _)
pd_volume(ps, pars) ==
    IF ps = <<>> THEN <<>>
    ELSE LET p == ps[1]
             names ==
                IF ~p.polydisperse \/ p.type = "orientation" THEN <<>>
                ELSE IF p.length_control # ""
                THEN numbered(p.name,
                              int(QAdd(Num(get(pars, p.length_control, PyInt(1))),
                                       Q(1, 2))))
                ELSE IF p.length > 1 THEN numbered(p.name, p.length)
                ELSE <<p.name>>
         IN names \o pd_volume(Tail(ps), pars)

\* Whether some orientation parameter can be polydisperse.
pd_oriented(ps) ==
    \E i \in 1..Len(ps) : ps[i].polydisperse /\ ps[i].type = "orientation"

\* The volume part with the branch chosen by u alone once a candidate
\* exists.
_random_pd_volume_by_draw(pars, names, u, st1) ==
    LET n == Len(names)
        st2 == Step(st1)
    IN IF QLt(u, Q(1, 100)) \/ n < 1
       THEN [pars |-> pars, rng |-> st1]
       ELSE IF QLt(u, Q(86, 100))
       THEN [pars |-> setitem(pars, names[choice(st1, n) + 1] \o "_pd_n",
                              PyInt(35)),
             rng |-> st2]
       ELSE [pars |-> setitem(setitem(pars,
                           names[choice(st1, n) + 1] \o "_pd_n", PyInt(25)),
                           names[choice(st2, n) + 1] \o "_pd_n", PyInt(10)),
             rng |-> Step(st2)]

\* The volume part: with u the value np.random.rand() gave and st1 the
\* generator state after that draw, up to three of the names get their
\* number of points, each picked by np.random.choice; np.random.choice(n,
\* size=k) draws its k indices independently of each other.
_random_pd_volume(pars, names, u, st1) ==
    LET n == Len(names)
        st2 == Step(st1)
        st3 == Step(st2)
    IN IF QLt(u, Q(1, 100)) \/ n < 1
       THEN [pars |-> pars, rng |-> st1]
       ELSE IF QLt(u, Q(86, 100)) \/ n < 2
       THEN [pars |-> setitem(pars, names[choice(st1, n) + 1] \o "_pd_n",
                              PyInt(35)),
             rng |-> st2]
       ELSE IF QLt(u, Q(99, 100)) \/ n < 3
       THEN [pars |-> setitem(setitem(pars,
                           names[choice(st1, n) + 1] \o "_pd_n", PyInt(25)),
                           names[choice(st2, n) + 1] \o "_pd_n", PyInt(10)),
             rng |-> st3]
       ELSE [pars |-> setitem(setitem(setitem(pars,
                           names[choice(st1, n) + 1] \o "_pd_n", PyInt(25)),
                           names[choice(st2, n) + 1] \o "_pd_n", PyInt(10)),
                           names[choice(st3, n) + 1] \o "_pd_n", PyInt(5)),
             rng |-> Step(st3)]

\* The orientation part, which follows the volume part vol.
_random_pd_oriented(model_info, vol) ==
    LET phi == QLt(rand(vol.rng), Q(1, 10))
        psi == /\ QLt(rand(Step(vol.rng)), Q(1, 10))
               /\ has_parameter(model_info, "psi")
        with_theta == setitem(vol.pars, "theta_pd_n", PyInt(20))
        with_phi == IF phi THEN setitem(with_theta, "phi_pd_n", PyInt(5))
                    ELSE with_theta
    IN IF pd_oriented(model_info.parameters)
       THEN [pars |-> IF psi THEN setitem(with_phi, "psi_pd_n", PyInt(5))
                      ELSE with_phi,
             rng |-> Step(Step(vol.rng))]
       ELSE vol

\* The parameters with a polydispersity pattern switched on, and the
\* generator state after the draws that chose it.
_random_pd(model_info, pars, st) ==
    _random_pd_oriented(model_info,
        _random_pd_volume(pars, pd_volume(model_info.parameters, pars),
                          rand(st), Step(st)))

---------------------------------------------------------------------------
(* randomize_pars *)

\* x put into the sorted list s at the place its key has.
insort(s, x) ==
    LET i == Cardinality({j \in 1..Len(s) : str_lt(s[j].k, x.k)})
    IN SubSeq(s, 1, i) \o <<x>> \o SubSeq(s, i + 1, Len(s))

\* sorted(pars.items()) read as the original order: no sort at all.
sorted_as_given(items) == items

\* sorted(pars.items()): the items in the order of their keys
RECURSIVE sorted(_)
sorted(items) ==
    IF items = <<>> THEN <<>>
    ELSE insort(sorted(SubSeq(items, 1, Len(items) - 1)), items[Len(items)])

\* dict((p, _randomize_one(model_info, p, v)) for p, v in items), continued
\* from the dict built so far; one is the result for the first item.
RECURSIVE randomize_each(_, _, _, _)
randomize_rest(model_info, items, random_pars, one) ==
    IF one.raised # ""
    THEN [raised |-> one.raised, pars |-> random_pars, rng |-> one.rng]
    ELSE LET next == setitem(random_pars, items[1].k, one.v)
         IN \* the test has TLC evaluate next before it goes on
            IF Len(next) > 0
            THEN randomize_each(model_info, Tail(items), next, one.rng)
            ELSE [raised |-> "", pars |-> <<>>, rng |-> one.rng]

randomize_each(model_info, items, random_pars, st) ==
    IF items = <<>> THEN [raised |-> "", pars |-> random_pars, rng |-> st]
    ELSE randomize_rest(model_info, items, random_pars,
                        _randomize_one(model_info, items[1].k, items[1].v, st))

\* What randomize_pars returns: the parameter set and the generator state
\* the call leaves; with them, the generic values and the hook's values the
\* set was made from.
RandomPars(generic, hook, pd) ==
    [raised |-> "", pars |-> pd.pars, rng |-> pd.rng,
     generic |-> generic.pars, hook |-> hook.pars]

\* random_pars.update(model_info.random()) turned round: the generic values
\* are written over the hook's.
hook_under_pars(model_info, generic, hook) ==
    RandomPars(generic, hook,
               _random_pd(model_info, update(hook.pars, generic.pars), hook.rng))

\* random_pars.update(model_info.random()); _random_pd(model_info, random_pars)
hook_over_pars(model_info, generic, hook) ==
    RandomPars(generic, hook,
               _random_pd(model_info, update(generic.pars, hook.pars), hook.rng))

\* The rest of randomize_pars, once the generic values are drawn.
randomize_hook(model_info, generic) ==
    IF generic.raised # ""
    THEN [raised |-> generic.raised, pars |-> <<>>, rng |-> generic.rng,
          generic |-> generic.pars, hook |-> <<>>]
    ELSE hook_over_pars(model_info, generic, random(model_info, generic.rng))

randomize_pars(model_info, pars, st) ==
    randomize_hook(model_info,
                   randomize_each(model_info, sorted(pars), <<>>, st))

---------------------------------------------------------------------------
(* get_pars *)

\* scale and background, which every model has, before the model's own.
call_parameters(model_info) ==
    << Par("scale", PyInt(1), <<F(0), inf>>, ""),
       Par("background", PyFloat(Q(1, 1000)), <<neginf, inf>>, "") >>
    \o model_info.parameters

\* The default parameter set (use_demo false).  Nothing is stored for a
\* parameter of length above one.
RECURSIVE get_pars_from(_, _)
get_pars_from(ps, pars) ==
    IF ps = <<>> THEN pars
    ELSE LET p == ps[1]
             parts == <<Item("", p.default)>> \o
                      (IF p.polydisperse
                       THEN << Item("_pd", PyFloat(F(0))),
                               Item("_pd_n", PyInt(0)),
                               Item("_pd_nsigma", PyFloat(F(3))),
                               Item("_pd_type", PyStr("gaussian")) >>
                       ELSE <<>>)
             named == [i \in 1..Len(parts) |->
                          Item(p.name \o parts[i].k, parts[i].v)]
             next == IF p.length > 1 THEN pars ELSE update(pars, named)
         IN IF Len(next) >= 0 THEN get_pars_from(Tail(ps), next) ELSE <<>>

get_pars(model_info) == get_pars_from(call_parameters(model_info), <<>>)

---------------------------------------------------------------------------
(* Randomizing a model's parameters twice, each time in a new process that *)
(* main() seeds (-random=seed); the parameter set is handed over in some   *)
(* key order.                                                              *)

reverse(items) == [i \in 1..Len(items) |-> items[Len(items) + 1 - i]]
rotate(items) == IF items = <<>> THEN <<>> ELSE Tail(items) \o <<Head(items)>>
Orderings(pars) == {pars, reverse(pars), rotate(pars)}

Models == {polymer_micelle, parallelepiped} \cup
          {multi_shell(k) : k \in 1..MaxChoices}

InitRandom ==
    /\ IdleSeed
    /\ pc = "start"
    /\ \E model_info \in Models, s \in Seeds :
       \E first \in Orderings(get_pars(model_info)),
          second \in Orderings(get_pars(model_info)) :
          args = [model_info |-> model_info, seed |-> s,
                  pars |-> <<first, second>>]
    /\ ret = <<>>

\* main: if opts['seed'] > -1: np.random.seed(opts['seed'])
MainSeed ==
    /\ pc \in {"start", "called"}
    /\ args.seed > -1
    /\ \E entropy \in EntropyStreams : rng' = seed(rng, args.seed, entropy)
    /\ pc' = IF pc = "start" THEN "seeded" ELSE "reseeded"
    /\ UNCHANGED <<scopes, hist, event, args, ret>>

CallRandomizePars ==
    /\ pc \in {"seeded", "reseeded"}
    /\ \E r \in {randomize_pars(args.model_info, args.pars[Len(ret) + 1], rng)} :
          /\ ret' = Append(ret, [before |-> rng, raised |-> r.raised,
                                 pars |-> r.pars, generic |-> r.generic,
                                 hook |-> r.hook])
          /\ rng' = r.rng
    /\ pc' = IF pc = "seeded" THEN "called" ELSE "done"
    /\ UNCHANGED <<scopes, hist, event, args>>

NextRandom == MainSeed \/ CallRandomizePars

SpecRandom == InitRandom /\ [][NextRandom]_vars

\* The result of the latest call of randomize_pars.
Latest == ret[Len(ret)]
Called == pc \in {"called", "done"}

\* C4: two calls of randomize_pars that start from the same generator state,
\* with the same model and parameter sets of equal content in whatever key
\* order, return identical parameter sets.
C4_Reproducible ==
    (/\ pc = "done"
     /\ ret[1].before = ret[2].before
     /\ dict_eq(args.pars[1], args.pars[2]))
    => /\ ret[1].raised = ret[2].raised
       /\ ret[1].pars = ret[2].pars

\* Two calls from one generator state whose parameter sets differ in key
\* order only, both of which drew values.
C4_Witness ==
    /\ pc = "done"
    /\ ret[1].before = ret[2].before
    /\ args.pars[1] # args.pars[2]
    /\ dict_eq(args.pars[1], args.pars[2])
    /\ ret[1].raised = ""
    /\ ret[1].pars # <<>>
    /\ ret[1].pars = ret[2].pars

\* The number of choices of the model's choice parameter.
Choices == Len(parameter(args.model_info, "case_num").limits)
IsIndex(v, k) == v.t = "int" /\ 0 <= v.n /\ v.n < k

\* C8 as stated: for a choice list of any length k, the value _randomize_one
\* returns for the parameter is an integer index i with 0 <= i < k.
C8_IndexForEveryLength ==
    (Called /\ has_parameter(args.model_info, "case_num"))
    => IsIndex(getitem(Latest.generic, "case_num"), Choices)

\* C8 as amended: for a choice list of more than two values, the value
\* _randomize_one returns for the parameter is an integer index i with
\* 0 <= i < k.
C8_IndexForChoiceList ==
    (Called /\ has_parameter(args.model_info, "case_num") /\ Choices > 2)
    => IsIndex(getitem(Latest.generic, "case_num"), Choices)

\* A choice list of more than two values got its last index.
C8_Witness ==
    /\ Called
    /\ has_parameter(args.model_info, "case_num")
    /\ Choices > 2
    /\ getitem(Latest.generic, "case_num") = PyInt(Choices - 1)

---------------------------------------------------------------------------
(* time_calculation on its own *)

TimePars ==
    { RunPars,
      << Item("length_pd_n", PyInt(10)), Item("length", PyFloat(F(400))),
         Item("radius_pd_n", PyInt(25)), Item("radius_pd", PyFloat(Q(1, 5))),
         Item("radius", PyFloat(F(20))), Item("scale", PyInt(1)) >>,
      << Item("scale", PyInt(1)), Item("background", PyFloat(Q(1, 1000))) >> }

InitTime ==
    /\ IdleSeed
    /\ pc = "call"
    /\ \E calculator \in BaseCalculators, pars \in TimePars,
          evals \in 0..MaxEvals :
           args = [calculator |-> calculator, pars |-> pars, evals |-> evals,
                   elapsed |-> Q(3, 1000)]
    /\ ret = <<>>

CallTimeCalculation ==
    /\ pc = "call"
    /\ ret' = time_calculation(args.calculator, args.pars, args.evals,
                               args.elapsed)
    /\ pc' = IF ret'.raised = "" THEN "returned" ELSE "raised"
    /\ UNCHANGED <<args, seedVars>>

NextTime == CallTimeCalculation

SpecTime == InitTime /\ [][NextTime]_vars

\* pars with every *_pd_n key forced to 0 and every other key as it is.
IsSuppressed(call_pars, pars) ==
    /\ Len(call_pars) = Len(pars)
    /\ \A i \in 1..Len(pars) :
          /\ call_pars[i].k = pars[i].k
          /\ call_pars[i].v = IF endswith(pars[i].k, "_pd_n") THEN PyInt(0)
                              ELSE pars[i].v

\* C11: with n > 1, time_calculation makes n+1 calls: a warm-up with every
\* *_pd_n key forced to 0, then n calls with the unmodified pars; with n = 1
\* it makes one call and no warm-up.  It returns the output of the last call
\* and leaves pars as it was.
C11_WarmupThenTimedCalls ==
    (pc # "call" /\ ~args.calculator.fails /\ args.evals >= 1)
    => /\ ret.raised = ""
       /\ ret.value = args.calculator.out
       /\ ret.pars = args.pars
       /\ IF args.evals > 1
          THEN /\ Len(ret.calls) = args.evals + 1
               /\ IsSuppressed(ret.calls[1].pars, args.pars)
               /\ \A i \in 2..(args.evals + 1) : ret.calls[i].pars = args.pars
          ELSE /\ Len(ret.calls) = 1
               /\ ret.calls[1].pars = args.pars

\* A call with n > 1 whose warm-up parameters differ from pars.
C11_Witness ==
    /\ pc = "returned"
    /\ args.evals > 1
    /\ Len(ret.calls) = args.evals + 1
    /\ ret.calls[1].pars # args.pars
    /\ ret.calls[2].pars = args.pars

\* C12: for every evaluation count n >= 0, n = 0 included, time_calculation
\* makes at least one timed call with pars and returns its output and an
\* average time; it does not fail when the calculator succeeds.
C12_AtLeastOneTimedCall ==
    (pc # "call" /\ ~args.calculator.fails)
    => /\ ret.raised = ""
       /\ ret.value = args.calculator.out
       /\ \E i \in 1..Len(ret.calls) : ret.calls[i].pars = args.pars

---------------------------------------------------------------------------
(* _print_stats on its own *)

\* The entries of the arrays summarized: errors of either sign, or masked.
ErrValues == {F(-3), F(1), F(2), F(3), F(4)}
ErrEntries == [v : ErrValues, m : {FALSE}] \cup {[v |-> nan, m |-> TRUE]}
ErrArrays ==
    UNION {{[none |-> FALSE, data |-> [i \in 1..n |-> e[i].v],
             mask |-> [i \in 1..n |-> e[i].m]] : e \in [1..n -> ErrEntries]} :
           n \in 0..StatsLen}

InitStats ==
    /\ IdleSeed
    /\ pc = "call"
    /\ args \in ErrArrays
    /\ ret = <<>>

CallPrintStats ==
    /\ pc = "call"
    /\ ret' = _print_stats(args)
    /\ pc' = "returned"
    /\ UNCHANGED <<args, seedVars>>

NextStats == CallPrintStats

SpecStats == InitStats /\ [][NextStats]_vars

\* The valid (unmasked) errors, as a set of indices of the array.
Valid == {i \in 1..Len(args.data) : ~args.mask[i]}
NValid == Cardinality(Valid)

\* s holds the absolute values of the valid errors in ascending order.
IsSortedAbs(s) ==
    /\ Len(s) = NValid
    /\ \A i \in 1..(Len(s) - 1) : QLe(s[i], s[i + 1])
    /\ \A x \in {FAbs(args.data[i]) : i \in Valid} :
          Cardinality({j \in 1..Len(s) : s[j] = x})
              = Cardinality({i \in Valid : FAbs(args.data[i]) = x})

\* C15: for n >= 1 valid errors, over the ascending absolute values: max is
\* the last, median the one at index floor((n-1)*0.50), 98% the one at index
\* floor((n-1)*0.98), indices from 0.
C15_OrderStatistics ==
    (pc = "returned" /\ NValid >= 1)
    => /\ ret.valid
       /\ IsSortedAbs(ret.sorted_err)
       /\ ret.max = ret.sorted_err[NValid]
       /\ ret.median = ret.sorted_err[((NValid - 1) * 50) \div 100 + 1]
       /\ ret.p98 = ret.sorted_err[((NValid - 1) * 98) \div 100 + 1]

\* The errors [1, 2, 3, 4] gave max 4 and median 2.
C15_Witness ==
    /\ pc = "returned"
    /\ args.data = <<F(1), F(2), F(3), F(4)>>
    /\ NValid = 4
    /\ ret.max = F(4)
    /\ ret.median = F(2)

\* The sum of the valid errors, with their signs, and of their squares.
RECURSIVE SignedSum(_)
SignedSum(is) ==
    IF is = {} THEN F(0)
    ELSE LET i == CHOOSE j \in is : TRUE
         IN QAdd(args.data[i], SignedSum(is \ {i}))

RECURSIVE SquareSum(_)
SquareSum(is) ==
    IF is = {} THEN F(0)
    ELSE LET i == CHOOSE j \in is : TRUE
         IN QAdd(QMul(args.data[i], args.data[i]), SquareSum(is \ {i}))

\* C16: the zero-offset reported is the signed mean of the valid errors, and
\* the rms the square root of the mean of their squares.
C16_SignedMeanAndRms ==
    (pc = "returned" /\ NValid >= 1)
    => /\ ret.zero_offset = QDiv(SignedSum(Valid), F(NValid))
       /\ ret.mean_square = QDiv(SquareSum(Valid), F(NValid))

---------------------------------------------------------------------------
(* make_engine and the three calculator factories *)

\* None where an engine spec or a legacy model name is expected.
NoDtype == "None"
NoName == "None"

\* A model_info as the factories read it: its id and its composition, <<>>
\* or <<composition_type, parts>>.
Plain(id) == [id |-> id, composition |-> <<>>]
Composite(type, P, S) ==
    [id |-> P.id \o (IF type = "product" THEN "*" ELSE "+") \o S.id,
     composition |-> <<type, <<P, S>>>>]

\* convert.revert_name(model_info): the name of the model in old sasview,
\* None when it has none.
CONVERSION_TABLE ==
    [sphere |-> "SphereModel", hardsphere |-> "HardsphereStructure"]
revert_name(model_info) ==
    IF model_info.id \in DOMAIN CONVERSION_TABLE
    THEN CONVERSION_TABLE[model_info.id] ELSE NoName

\* What a factory gives: the exception raised, or the calculator with its
\* engine tag, the platform it runs on and the dtype of its model.
Raises(exception) ==
    [raised |-> exception, engine |-> "", platform |-> "", dtype |-> ""]
Calculator(engine, platform, dtype) ==
    [raised |-> "", engine |-> engine, platform |-> platform, dtype |-> dtype]

\* get_model_class(name) in eval_sasview: 'sas.models.' + name is a
\* TypeError for the name None.
get_model_class(name) == IF name = NoName THEN "TypeError" ELSE ""

\* The first exception of [get_model_class(revert_name(p))() for p in parts]
RECURSIVE get_model_classes(_)
get_model_classes(parts) ==
    IF parts = <<>> THEN ""
    ELSE IF get_model_class(revert_name(Head(parts))) # ""
    THEN get_model_class(revert_name(Head(parts)))
    ELSE get_model_classes(Tail(parts))

\* eval_sasview(model_info, data), with sas importable or not
eval_sasview(model_info, have_sas) ==
    IF ~have_sas THEN Raises("ImportError")
    ELSE IF model_info.composition # <<>>
    THEN IF model_info.composition[1] = "product"
         THEN IF get_model_classes(model_info.composition[2]) # ""
              THEN Raises(get_model_classes(model_info.composition[2]))
              ELSE Calculator("sasview", "sasview", "")
         ELSE Raises("ValueError")
    ELSE IF revert_name(model_info) = NoName THEN Raises("ValueError")
    ELSE Calculator("sasview", "sasview", "")

DTYPE_MAP ==
    [half |-> "16", fast |-> "fast", single |-> "32", double |-> "64",
     quad |-> "128", f16 |-> "16", f32 |-> "32", f64 |-> "64",
     float16 |-> "16", float32 |-> "32", float64 |-> "64",
     float128 |-> "128", longdouble |-> "128"]

\* The precision core.build_model resolves a dtype to, as str(model.dtype);
\* "" for a dtype it does not know.
resolved ==
    [half |-> "float16", fast |-> "float32", single |-> "float32",
     double |-> "float64", quad |-> "float128", f16 |-> "float16",
     f32 |-> "float32", f64 |-> "float64", None |-> "float32"]

\* core.build_model(model_info, dtype, platform): the model built on the
\* platform asked for, at the precision asked for.
build_model(model_info, dtype, platform) ==
    IF dtype \in DOMAIN resolved
    THEN [raised |-> "", platform |-> platform, dtype |-> resolved[dtype]]
    ELSE [raised |-> "TypeError", platform |-> "", dtype |-> ""]

\* DirectModel(data, model) with calculator.engine set to family + bits
tagged(family, model) ==
    IF model.raised # "" THEN Raises(model.raised)
    ELSE Calculator(family \o DTYPE_MAP[model.dtype], model.platform,
                    model.dtype)

\* eval_opencl(model_info, data, dtype, cutoff)
eval_opencl(model_info, dtype, HAVE_OPENCL) ==
    IF ~HAVE_OPENCL THEN Raises("RuntimeError")
    ELSE tagged("OCL", build_model(model_info, dtype, "ocl"))

\* eval_ctypes(model_info, data, dtype, cutoff)
eval_ctypes(model_info, dtype) ==
    tagged("OMP", build_model(model_info, dtype, "dll"))

\* make_engine with the marker left on the dtype handed to eval_ctypes.
make_engine_with_marker(model_info, dtype, HAVE_OPENCL, have_sas) ==
    IF dtype = "sasview" THEN eval_sasview(model_info, have_sas)
    ELSE IF dtype = NoDtype \/ ~endswith(dtype, "!")
    THEN eval_opencl(model_info, dtype, HAVE_OPENCL)
    ELSE eval_ctypes(model_info, dtype)

\* make_engine(model_info, data, dtype, cutoff)
make_engine(model_info, dtype, HAVE_OPENCL, have_sas) ==
    IF dtype = "sasview" THEN eval_sasview(model_info, have_sas)
    ELSE IF dtype = NoDtype \/ ~endswith(dtype, "!")
    THEN eval_opencl(model_info, dtype, HAVE_OPENCL)
    ELSE eval_ctypes(model_info, SubSeq(dtype, 1, Len(dtype) - 1))

\* The calls of make_engine that are tried.
Precisions == {"half", "fast", "single", "double", "quad", "f32"}
EngineSpecs ==
    {"sasview", NoDtype} \cup Precisions \cup {d \o "!" : d \in Precisions}
EngineModels ==
    {Plain("sphere"), Plain("polymer_micelle"),
     Composite("product", Plain("sphere"), Plain("hardsphere")),
     Composite("product", Plain("polymer_micelle"), Plain("hardsphere")),
     Composite("mixture", Plain("sphere"), Plain("polymer_micelle"))}

InitEngine ==
    /\ IdleSeed
    /\ pc = "call"
    /\ \E model_info \in EngineModels, dtype \in EngineSpecs,
          HAVE_OPENCL \in BOOLEAN, have_sas \in BOOLEAN :
           args = [model_info |-> model_info, dtype |-> dtype,
                   HAVE_OPENCL |-> HAVE_OPENCL, have_sas |-> have_sas]
    /\ ret = <<>>

CallMakeEngine ==
    /\ pc = "call"
    /\ ret' = make_engine(args.model_info, args.dtype, args.HAVE_OPENCL,
                          args.have_sas)
    /\ pc' = IF ret'.raised = "" THEN "returned" ELSE "raised"
    /\ UNCHANGED <<args, seedVars>>

NextEngine == CallMakeEngine

SpecEngine == InitEngine /\ [][NextEngine]_vars

\* The spec asks for the OpenCL engine, the DLL engine, the legacy one.
AsksOpenCL == args.dtype # "sasview" /\ ~endswith(args.dtype, "!")
AsksDLL == args.dtype # "sasview" /\ endswith(args.dtype, "!")
AsksLegacy == args.dtype = "sasview"

\* The model has no equivalent in old sasview: it has no old name, or it is
\* a product with a part that has none.
NoLegacyEquivalent(model_info) ==
    IF model_info.composition = <<>> THEN revert_name(model_info) = NoName
    ELSE /\ model_info.composition[1] = "product"
         /\ \E i \in 1..Len(model_info.composition[2]) :
               revert_name(model_info.composition[2][i]) = NoName

NonProductComposite(model_info) ==
    /\ model_info.composition # <<>>
    /\ model_info.composition[1] # "product"

\* C17: an OpenCL spec without the OpenCL runtime fails and gives no
\* calculator; a legacy request for a model with no legacy equivalent, or
\* for a composite that is not a product, fails with a lookup or value
\* error.
C17_FailsInsteadOfFallingBack ==
    /\ (pc # "call" /\ AsksOpenCL /\ ~args.HAVE_OPENCL) =>
          (pc = "raised" /\ ret.engine = "" /\ ret.platform = "")
    /\ (/\ pc # "call" /\ AsksLegacy /\ args.have_sas
        /\ \/ NoLegacyEquivalent(args.model_info)
           \/ NonProductComposite(args.model_info)) =>
          (pc = "raised" /\ ret.raised \in {"ValueError", "LookupError",
                                           "KeyError"})

\* The tag of the engine a spec selects, whatever the model.
Bits(dtype) == DTYPE_MAP[resolved[dtype]]
Tag(dtype) ==
    IF dtype = "sasview" THEN "sasview"
    ELSE IF endswith(dtype, "!")
    THEN "OMP" \o Bits(SubSeq(dtype, 1, Len(dtype) - 1))
    ELSE "OCL" \o Bits(dtype)

\* C18: the spec alone selects the backend.  'sasview' gives the legacy
\* calculator tagged "sasview"; a spec ending in '!' the DLL engine built
\* with the spec less the marker and tagged "OMP"+bits; any other spec, None
\* too, the OpenCL engine tagged "OCL"+bits; so a spec and the same spec with
\* the marker get different tags.
C18_BackendFromSpecAlone ==
    /\ (pc # "call" /\ AsksLegacy /\ pc = "returned") =>
          (ret.engine = "sasview" /\ ret.platform = "sasview")
    /\ (pc # "call" /\ AsksDLL) =>
          /\ pc = "returned"
          /\ ret.platform = "dll"
          /\ ret.dtype = resolved[SubSeq(args.dtype, 1, Len(args.dtype) - 1)]
          /\ ret.engine = Tag(args.dtype)
          /\ ret.engine # Tag(SubSeq(args.dtype, 1, Len(args.dtype) - 1))
    /\ (pc # "call" /\ AsksOpenCL /\ args.HAVE_OPENCL) =>
          /\ pc = "returned"
          /\ ret.platform = "ocl"
          /\ ret.dtype = resolved[args.dtype]
          /\ ret.engine = Tag(args.dtype)

\* The spec single! gave the DLL engine tagged OMP32 where single gives OCL32.
C18_Witness ==
    /\ pc = "returned"
    /\ args.dtype = "single!"
    /\ ret.engine = "OMP32"
    /\ Tag("single") = "OCL32"

---------------------------------------------------------------------------
(* parse_pars and compare *)

\* s.split(sep, 1)[1], for sep in s
split_rest(s, sep) ==
    SubSeq(s, Len(split_first(s, sep)) + Len(sep) + 1, Len(s))

\* float(s) for the decimal numerals digits[.digits]
RECURSIVE digits(_)
digits(s) ==
    IF Len(s) = 0 THEN 0
    ELSE 10 * digits(SubSeq(s, 1, Len(s) - 1))
         + (ord(SubSeq(s, Len(s), Len(s))) - ord("0"))

float(s) ==
    IF contains(s, ".")
    THEN QDiv(F(digits(split_first(s, ".") \o split_rest(s, "."))),
              pow10int(Len(split_rest(s, "."))))
    ELSE F(digits(s))

PAR_SPLIT == ","

\* for k, v in pars.items(): if k in pars2: pars2[k] = v
share(pars2, pars) ==
    update(pars2, SelectSeq(pars, LAMBDA item : item.k \in keys(pars2)))

\* What parse_pars has in hand after a step: the exception raised, or the
\* two parameter sets and the generator.
Sets(raised, pars, pars2, st) ==
    [raised |-> raised, pars |-> pars, pars2 |-> pars2, rng |-> st]

\* constrain_pars(model_info, pars); constrain_pars(model_info2, pars2)
constrain_both(c, c2, st) ==
    IF c.raised # "" THEN Sets(c.raised, <<>>, <<>>, st)
    ELSE IF c2.raised # "" THEN Sets(c2.raised, <<>>, <<>>, st)
    ELSE Sets("", c.pars, c2.pars, st)

\* The second model randomized, and the values of same name shared.
randomize_second(opts, pars, r2) ==
    IF r2.raised # "" THEN Sets(r2.raised, <<>>, <<>>, r2.rng)
    ELSE constrain_both(constrain_pars(opts.def[1], pars),
                        constrain_pars(opts.def[2], share(r2.pars, pars)),
                        r2.rng)

\* The first model randomized.
randomize_first(opts, r, pars2) ==
    IF r.raised # "" THEN Sets(r.raised, <<>>, <<>>, r.rng)
    ELSE IF opts.def[1] # opts.def[2]
    THEN randomize_second(opts, r.pars,
                          randomize_pars(opts.def[2], pars2, r.rng))
    ELSE constrain_both(constrain_pars(opts.def[1], r.pars),
                        constrain_pars(opts.def[2], r.pars), r.rng)

\* if opts['seed'] > -1: randomize and constrain
randomize_both(opts, pars, pars2, st) ==
    IF opts.seed > -1
    THEN randomize_first(opts, randomize_pars(opts.def[1], pars, st), pars2)
    ELSE Sets("", pars, pars2, st)

\* suppress_pd and suppress_magnetism on both sets
suppress_both(opts, r) ==
    IF r.raised # "" THEN r
    ELSE Sets("",
              suppress_magnetism(suppress_pd(r.pars, opts.mono),
                                 ~opts.magnetic),
              suppress_magnetism(suppress_pd(r.pars2, opts.mono),
                                 ~opts.magnetic),
              r.rng)

\* v1, v2 = v.split(PAR_SPLIT, 2) if PAR_SPLIT in v else (v, v)
v1(v) == IF contains(v, PAR_SPLIT) THEN split_first(v, PAR_SPLIT) ELSE v
v2(v) == IF contains(v, PAR_SPLIT) THEN split_rest(v, PAR_SPLIT) ELSE v

\* presets[k] = float(v) if v and k in pars
preset(presets, pars, k, v) ==
    IF Len(v) > 0 /\ k \in keys(pars)
    THEN setitem(presets, k, PyFloat(float(v))) ELSE presets

\* The loop over opts['values'] that skips a key it does not know.
RECURSIVE fill_presets_skipping(_, _, _, _, _)
fill_presets_skipping(values, pars, pars2, presets, presets2) ==
    IF values = <<>>
    THEN [invalid |-> <<>>, presets |-> presets, presets2 |-> presets2]
    ELSE LET k == split_first(values[1], "=")
             v == split_rest(values[1], "=")
         IN fill_presets_skipping(Tail(values), pars, pars2,
                                  preset(presets, pars, k, v1(v)),
                                  preset(presets2, pars2, k, v2(v)))

\* The loop over opts['values']: the presets of the two sets, or the key
\* reported as invalid, at which parse_pars returns None.
RECURSIVE fill_presets(_, _, _, _, _)
fill_presets(values, pars, pars2, presets, presets2) ==
    IF values = <<>>
    THEN [invalid |-> <<>>, presets |-> presets, presets2 |-> presets2]
    ELSE LET k == split_first(values[1], "=")
             v == split_rest(values[1], "=")
         IN IF k \notin keys(pars) /\ k \notin keys(pars2)
            THEN [invalid |-> <<k>>, presets |-> <<>>, presets2 |-> <<>>]
            ELSE fill_presets(Tail(values), pars, pars2,
                              preset(presets, pars, k, v1(v)),
                              preset(presets2, pars2, k, v2(v)))

\* presets.setdefault(k+'_n', 35.) for each k in presets ending in _pd
RECURSIVE default_pd_n(_, _)
default_pd_n(items, presets) ==
    IF items = <<>> THEN presets
    ELSE default_pd_n(Tail(items),
                      IF /\ endswith(items[1].k, "_pd")
                         /\ (items[1].k \o "_n") \notin keys(presets)
                      THEN setitem(presets, items[1].k \o "_n", PyFloat(F(35)))
                      ELSE presets)

\* What parse_pars gives: None after a diagnostic, the two sets, or an
\* exception.
Parsed(raised, none, invalid, pars, st) ==
    [raised |-> raised, none |-> none, invalid |-> invalid, pars |-> pars,
     rng |-> st]

\* The end of parse_pars: the presets written over the values.
with_presets(r, filled) ==
    IF filled.invalid # <<>>
    THEN Parsed("", TRUE, filled.invalid, <<>>, r.rng)
    ELSE Parsed("", FALSE, <<>>,
                <<update(r.pars, default_pd_n(filled.presets, filled.presets)),
                  update(r.pars2,
                         default_pd_n(filled.presets2, filled.presets2))>>,
                r.rng)

fill_in(opts, r) ==
    IF r.raised # "" THEN Parsed(r.raised, FALSE, <<>>, <<>>, r.rng)
    ELSE with_presets(r, fill_presets(opts.values, r.pars, r.pars2,
                                      <<>>, <<>>))

\* parse_pars(opts) with the global generator in state st
parse_pars(opts, st) ==
    fill_in(opts,
            suppress_both(opts,
                randomize_both(opts, get_pars(opts.def[1]),
                               share(get_pars(opts.def[2]),
                                     get_pars(opts.def[1])),
                               st)))

\* What compare leaves: the exception that escaped, the calculator calls
\* made, the keys reported as invalid, the number of sets evaluated and the
\* generator.
Compared(raised, calls, invalid, evaluated, st) ==
    [raised |-> raised, calls |-> calls, invalid |-> invalid,
     evaluated |-> evaluated, rng |-> st]

\* compare(opts) from set k on, with the global generator in state st
RECURSIVE compare_from(_, _, _, _)
after_run(opts, k, st, calls, result) ==
    IF result.raised # ""
    THEN Compared(result.raised, calls \o result.calls, <<>>, k, st)
    ELSE compare_from(opts, k + 1, st, calls \o result.calls)

after_parse(opts, k, calls, parsed) ==
    IF parsed.raised # ""
    THEN Compared(parsed.raised, calls, <<>>, k, parsed.rng)
    ELSE IF parsed.none
    THEN Compared("", calls, parsed.invalid, k, parsed.rng)
    ELSE after_run(opts, k, parsed.rng, calls,
                   run_models([engines |-> opts.engines, count |-> opts.count,
                               pars |-> parsed.pars, elapsed |-> Q(3, 1000),
                               verbose |-> TRUE]))

compare_from(opts, k, st, calls) ==
    IF k >= opts.sets THEN Compared("", calls, <<>>, k, st)
    ELSE after_parse(opts, k, calls, parse_pars(opts, st))

compare(opts, st) == compare_from(opts, 0, st, <<>>)

\* The runs of compare that are tried: one model or two, the values given
\* on the command line, and the engines already built.
ModelPairs ==
    {<<polymer_micelle, polymer_micelle>>, <<polymer_micelle, parallelepiped>>}
ValueArgs ==
    {"radius_core=50", "length_a=10,20.5", "length_a_pd=0.1", "bogus=1"}
ValueLists ==
    {<<>>} \cup {<<a>> : a \in ValueArgs}
           \cup {pair \in ValueArgs \X ValueArgs : pair[1] # pair[2]}
CompareEngines ==
    {<<[engine |-> "OCL32", fails |-> FALSE, out |-> Repeat(F(-2), GridLen)],
       comp>> :
        comp \in {NoCalculator,
                  [engine |-> "OMP64", fails |-> FALSE,
                   out |-> Repeat(F(0), GridLen)]}}

\* The seed, -mono or -poly, and -magnetic or not: the randomized runs are
\* tried with the default of the other two.
CompareModes ==
    {m \in {-1, 24} \X BOOLEAN \X BOOLEAN :
        /\ m[2] \/ ~m[3]
        /\ m[1] > -1 => (m[2] /\ ~m[3])}

\* main() has seeded the generator when opts['seed'] > -1.
InitCompare ==
    /\ pc = "call"
    /\ \E def \in ModelPairs, values \in ValueLists, sets \in 0..MaxSets,
          engines \in CompareEngines, mode \in CompareModes :
          /\ args = [def |-> def, values |-> values, sets |-> sets,
                     seed |-> mode[1], engines |-> engines, count |-> <<1, 1>>,
                     mono |-> mode[2], magnetic |-> mode[3]]
          /\ rng = IF mode[1] > -1 THEN [stream |-> mode[1], pos |-> 0]
                   ELSE [stream |-> 1, pos |-> 0]
    /\ scopes = <<>>
    /\ hist = <<>>
    /\ event = [op |-> "start", seed |-> None, before |-> rng, moved |-> FALSE,
                value |-> 0, drawn |-> 0]
    /\ ret = <<>>

CallCompare ==
    /\ pc = "call"
    /\ \E r \in {compare(args, rng)} :
          /\ ret' = r
          /\ rng' = r.rng
          /\ pc' = IF r.raised = "" THEN "returned" ELSE "raised"
    /\ UNCHANGED <<scopes, hist, event, args>>

NextCompare == CallCompare

SpecCompare == InitCompare /\ [][NextCompare]_vars

\* The keys given on the command line that are in neither model's parameter
\* set.
ParameterSet(model_info) == keys(get_pars(model_info))
GivenKeys == {split_first(args.values[i], "=") : i \in 1..Len(args.values)}
UnknownKeys ==
    {k \in GivenKeys : /\ k \notin ParameterSet(args.def[1])
                       /\ k \notin ParameterSet(args.def[2])}

\* C19: a key=value whose key is in neither model's parameter set is
\* rejected: a diagnostic names it, and compare returns with no calculator
\* evaluated, for that set or for a later one.
C19_UnknownKeyRejected ==
    (pc # "call" /\ args.sets >= 1 /\ UnknownKeys # {}) =>
        /\ pc = "returned"
        /\ Len(ret.invalid) = 1
        /\ ret.invalid[1] \in UnknownKeys
        /\ ret.calls = <<>>
        /\ ret.evaluated = 0

\* Two sets were asked for with a key no model has after a key one has:
\* nothing was evaluated.
C19_Witness ==
    /\ pc = "returned"
    /\ args.sets = 2
    /\ args.values = <<"radius_core=50", "bogus=1">>
    /\ ret.invalid = <<"bogus">>
    /\ ret.calls = <<>>

\* Without unknown keys every set is evaluated.
C19_WitnessEvaluated ==
    /\ pc = "returned"
    /\ args.sets = 2
    /\ UnknownKeys = {}
    /\ args.values # <<>>
    /\ ret.evaluated = 2
    /\ Len(ret.calls) >= 2

---------------------------------------------------------------------------
(* parse_opts: the command line read into opts, up to the options as main  *)
(* and compare use them.                                                   *)

\* s[n:]
from(s, n) == SubSeq(s, n + 1, Len(s))

OPTIONS ==
    {"plot", "noplot", "linear", "log", "q4", "hist", "nohist", "rel", "abs",
     "title=", "data=", "noise=", "res=", "nq=", "lowq", "midq", "highq",
     "exq", "zero", "2d", "1d", "preset", "random", "random=", "sets=",
     "demo", "default", "nopars", "pars", "poly", "mono", "cutoff=",
     "magnetic", "nonmagnetic", "accuracy=", "neval=", "calc=", "half",
     "fast", "single", "double", "single!", "double!", "quad!", "sasview",
     "help", "html", "edit"}
NAME_OPTIONS == {k \in OPTIONS : ~endswith(k, "=")}
VALUE_OPTIONS == {SubSeq(k, 1, Len(k) - 1) : k \in {o \in OPTIONS : endswith(o, "=")}}

\* The options before the flags are read.
DefaultOpts ==
    [plot |-> TRUE, view |-> "log", is2d |-> FALSE, qmax |-> Q(5, 100),
     nq |-> 128, res |-> F(0), noise |-> F(0), accuracy |-> "Low",
     cutoff |-> "0.0", seed |-> -1, mono |-> TRUE, magnetic |-> FALSE,
     show_pars |-> FALSE, show_hist |-> FALSE, rel_err |-> TRUE,
     explore |-> FALSE, use_demo |-> TRUE, zero |-> FALSE, html |-> FALSE,
     title |-> "None", datafile |-> "None", sets |-> 0, engine |-> "default",
     evals |-> "1"]

\* What reading the command line gives: None after a diagnostic, or the
\* options, and the global generator.
Options(none, opts, st) == [none |-> none, opts |-> opts, rng |-> st]

\* One pass of the loop over the flags.
interpret_one(arg, opts) ==
    CASE arg = "-noplot" -> [opts EXCEPT !.plot = FALSE]
      [] arg = "-plot" -> [opts EXCEPT !.plot = TRUE]
      [] arg = "-linear" -> [opts EXCEPT !.view = "linear"]
      [] arg = "-log" -> [opts EXCEPT !.view = "log"]
      [] arg = "-q4" -> [opts EXCEPT !.view = "q4"]
      [] arg = "-1d" -> [opts EXCEPT !.is2d = FALSE]
      [] arg = "-2d" -> [opts EXCEPT !.is2d = TRUE]
      [] arg = "-exq" -> [opts EXCEPT !.qmax = F(10)]
      [] arg = "-highq" -> [opts EXCEPT !.qmax = F(1)]
      [] arg = "-midq" -> [opts EXCEPT !.qmax = Q(2, 10)]
      [] arg = "-lowq" -> [opts EXCEPT !.qmax = Q(5, 100)]
      [] arg = "-zero" -> [opts EXCEPT !.zero = TRUE]
      [] startswith(arg, "-nq=") -> [opts EXCEPT !.nq = digits(from(arg, 4))]
      [] startswith(arg, "-res=") -> [opts EXCEPT !.res = float(from(arg, 5))]
      [] startswith(arg, "-noise=") ->
            [opts EXCEPT !.noise = float(from(arg, 7))]
      [] startswith(arg, "-sets=") ->
            [opts EXCEPT !.sets = digits(from(arg, 6))]
      [] startswith(arg, "-accuracy=") ->
            [opts EXCEPT !.accuracy = from(arg, 10)]
      [] startswith(arg, "-cutoff=") -> [opts EXCEPT !.cutoff = from(arg, 8)]
      [] startswith(arg, "-random=") ->
            [opts EXCEPT !.seed = digits(from(arg, 8))]
      [] startswith(arg, "-title=") -> [opts EXCEPT !.title = from(arg, 7)]
      [] startswith(arg, "-data=") -> [opts EXCEPT !.datafile = from(arg, 6)]
      [] startswith(arg, "-calc=") -> [opts EXCEPT !.engine = from(arg, 6)]
      [] startswith(arg, "-neval=") -> [opts EXCEPT !.evals = from(arg, 7)]
      [] arg = "-preset" -> [opts EXCEPT !.seed = -1]
      [] arg = "-mono" -> [opts EXCEPT !.mono = TRUE]
      [] arg = "-poly" -> [opts EXCEPT !.mono = FALSE]
      [] arg = "-magnetic" -> [opts EXCEPT !.magnetic = TRUE]
      [] arg = "-nonmagnetic" -> [opts EXCEPT !.magnetic = FALSE]
      [] arg = "-pars" -> [opts EXCEPT !.show_pars = TRUE]
      [] arg = "-nopars" -> [opts EXCEPT !.show_pars = FALSE]
      [] arg = "-hist" -> [opts EXCEPT !.show_hist = TRUE]
      [] arg = "-nohist" -> [opts EXCEPT !.show_hist = FALSE]
      [] arg = "-rel" -> [opts EXCEPT !.rel_err = TRUE]
      [] arg = "-abs" -> [opts EXCEPT !.rel_err = FALSE]
      [] arg \in {"-half", "-fast", "-single", "-double", "-single!",
                  "-double!", "-quad!", "-sasview"} ->
            [opts EXCEPT !.engine = from(arg, 1)]
      [] arg = "-edit" -> [opts EXCEPT !.explore = TRUE]
      [] arg = "-demo" -> [opts EXCEPT !.use_demo = TRUE]
      [] arg = "-default" -> [opts EXCEPT !.use_demo = FALSE]
      [] arg \in {"-html", "-help"} -> [opts EXCEPT !.html = TRUE]
      [] OTHER -> opts

\* The loop the other way round: the first of two flags is read last.
RECURSIVE interpret_backwards(_, _, _)
interpret_backwards(flags, opts, st) ==
    IF flags = <<>> THEN Options(FALSE, opts, st)
    ELSE IF flags[Len(flags)] = "-random"
    THEN interpret_backwards(SubSeq(flags, 1, Len(flags) - 1),
                             [opts EXCEPT !.seed = randint(st, 1000000)],
                             Step(st))
    ELSE interpret_backwards(SubSeq(flags, 1, Len(flags) - 1),
                             interpret_one(flags[Len(flags)], opts), st)

\* for arg in flags: ..., with -random drawing a seed from the generator
RECURSIVE interpret(_, _, _)
interpret(flags, opts, st) ==
    IF flags = <<>> THEN Options(FALSE, opts, st)
    ELSE IF flags[1] = "-random"
    THEN interpret(Tail(flags), [opts EXCEPT !.seed = randint(st, 1000000)],
                   Step(st))
    ELSE interpret(Tail(flags), interpret_one(flags[1], opts), st)

\* Magnetism forces 2D for now
force_2d(opts) == IF opts.magnetic THEN [opts EXCEPT !.is2d = TRUE] ELSE opts

\* Force random if sets is used
force_random(r) ==
    IF r.opts.sets >= 1 /\ r.opts.seed < 0
    THEN Options(FALSE, [r.opts EXCEPT !.seed = randint(r.rng, 1000000)],
                 Step(r.rng))
    ELSE r

one_set(r) ==
    IF r.opts.sets = 0 THEN Options(FALSE, [r.opts EXCEPT !.sets = 1], r.rng)
    ELSE r

after_flags(r) ==
    one_set(force_random(Options(FALSE, force_2d(r.opts), r.rng)))

\* parse_opts(argv) with the global generator in state st
parse_opts(argv, st) ==
    LET flags == SelectSeq(argv, LAMBDA arg : startswith(arg, "-"))
        positional_args ==
            SelectSeq(argv, LAMBDA arg : ~startswith(arg, "-")
                                         /\ ~contains(arg, "="))
        invalid ==
            SelectSeq(flags, LAMBDA o :
                /\ from(o, 1) \notin NAME_OPTIONS
                /\ ~\E t \in VALUE_OPTIONS : startswith(o, "-" \o t \o "="))
    IN IF Len(positional_args) = 0 THEN Options(TRUE, DefaultOpts, st)
       ELSE IF invalid # <<>> THEN Options(TRUE, DefaultOpts, st)
       ELSE after_flags(interpret(flags, DefaultOpts, st))

\* The command lines that are tried.
Args ==
    {"polymer_micelle", "-1d", "-2d", "-plot", "-noplot", "-single",
     "-double!", "-preset", "-random=7", "-random", "-magnetic",
     "-nonmagnetic", "-sets=2", "-bogus"}
Argvs == UNION {[1..n -> Args] : n \in 0..MaxArgs}

InitOpts ==
    /\ IdleSeed
    /\ pc = "call"
    /\ args \in Argvs
    /\ ret = <<>>

CallParseOpts ==
    /\ pc = "call"
    /\ \E r \in {parse_opts(args, rng)} :
          /\ ret' = r
          /\ rng' = r.rng
    /\ pc' = "returned"
    /\ UNCHANGED <<scopes, hist, event, args>>

NextOpts == CallParseOpts

SpecOpts == InitOpts /\ [][NextOpts]_vars

\* The last item of argv that is one of the given flags, "" when none is.
Last(flags) ==
    IF \E i \in 1..Len(args) : args[i] \in flags
    THEN args[CHOOSE i \in 1..Len(args) :
                 /\ args[i] \in flags
                 /\ \A j \in (i + 1)..Len(args) : args[j] \notin flags]
    ELSE ""

\* The value each option has when the last flag for it decides.
LastPlot == Last({"-plot", "-noplot"}) # "-noplot"
LastIs2d == Last({"-1d", "-2d"}) = "-2d"
LastMagnetic == Last({"-magnetic", "-nonmagnetic"}) = "-magnetic"
LastEngine ==
    IF Last({"-single", "-double!"}) = "" THEN "default"
    ELSE from(Last({"-single", "-double!"}), 1)
LastSeedFlag == Last({"-preset", "-random=7", "-random"})
LastSeedDecides ==
    CASE LastSeedFlag = "-random=7" -> ret.opts.seed = 7
      [] LastSeedFlag = "-random" -> ret.opts.seed \in 0..999999
      [] OTHER -> ret.opts.seed = -1
LastSets == IF Last({"-sets=2"}) = "" THEN 0 ELSE 2

Parsed_ == pc = "returned" /\ ~ret.none

\* C20 as claimed: for every option the last flag on the command line that
\* affects it decides its value: a -1d or -2d after -magnetic, and a -preset
\* or -random=seed after -sets, as well as the last of two flags for one key.
C20_LastFlagDecides ==
    Parsed_ =>
        /\ ret.opts.plot = LastPlot
        /\ ret.opts.engine = LastEngine
        /\ ret.opts.magnetic = LastMagnetic
        /\ Last({"-1d", "-2d", "-magnetic"}) = "-1d" => ~ret.opts.is2d
        /\ Last({"-1d", "-2d", "-magnetic"}) = "-2d" => ret.opts.is2d
        /\ Last({"-preset", "-random=7", "-random", "-sets=2"}) = "-preset"
              => ret.opts.seed = -1
        /\ Last({"-preset", "-random=7", "-random", "-sets=2"}) = "-random=7"
              => ret.opts.seed = 7

\* C20 amended: among the flags that write one option the last decides,
\* and then magnetism forces 2d and -sets=n with n >= 1 forces a random seed
\* where the seed was left negative.
C20_LastFlagThenForced ==
    Parsed_ =>
        /\ ret.opts.plot = LastPlot
        /\ ret.opts.engine = LastEngine
        /\ ret.opts.magnetic = LastMagnetic
        /\ ret.opts.is2d = (LastMagnetic \/ LastIs2d)
        /\ IF LastSets >= 1 /\ LastSeedFlag \in {"", "-preset"}
           THEN ret.opts.seed \in 0..999999
           ELSE LastSeedDecides

\* -2d then -1d gave 1d.
C20_Witness ==
    /\ Parsed_
    /\ args = <<"-2d", "-1d", "polymer_micelle">>
    /\ ~ret.opts.is2d

\* -magnetic then -1d gave 2d, and -sets=2 then -preset a random seed.
C20_WitnessForced2d ==
    /\ Parsed_
    /\ args = <<"-magnetic", "-1d", "polymer_micelle">>
    /\ ret.opts.is2d

C20_WitnessForcedRandom ==
    /\ Parsed_
    /\ args = <<"polymer_micelle", "-sets=2", "-preset">>
    /\ ret.opts.seed >= 0

---------------------------------------------------------------------------
(* suppress_pd on its own *)

\* A call of suppress_pd: what it returns, and the caller's pars as the call
\* leaves it (the function works on pars.copy()).
suppress_pd_call(pars, suppress) ==
    [returned |-> suppress_pd(pars, suppress), pars |-> pars]

\* The parameter sets that are tried: each key absent, zero or set, in the
\* order given or the other way round.
PdKeys == <<"radius", "radius_pd", "radius_pd_n", "length_pd", "length_pd_n">>
PdSet(k) ==
    IF endswith(k, "_pd_n") THEN PyInt(10)
    ELSE IF endswith(k, "_pd") THEN PyFloat(Q(1, 5))
    ELSE PyFloat(F(20))
PdPars ==
    UNION {{pars, reverse(pars)} :
           pars \in {LET present == SelectSeq([i \in 1..Len(PdKeys) |-> i],
                                              LAMBDA i : f[i] # "absent")
                     IN [j \in 1..Len(present) |->
                            Item(PdKeys[present[j]],
                                 IF f[present[j]] = "zero"
                                 THEN (IF endswith(PdKeys[present[j]], "_pd_n")
                                       THEN PyInt(0) ELSE PyFloat(F(0)))
                                 ELSE PdSet(PdKeys[present[j]]))] :
                    f \in [1..Len(PdKeys) -> {"absent", "zero", "set"}]}}

InitSuppress ==
    /\ IdleSeed
    /\ pc = "call"
    /\ \E pars \in PdPars, suppress \in BOOLEAN :
          args = [pars |-> pars, suppress |-> suppress]
    /\ ret = <<>>

CallSuppressPd ==
    /\ pc = "call"
    /\ ret' = suppress_pd_call(args.pars, args.suppress)
    /\ pc' = "returned"
    /\ UNCHANGED <<args, seedVars>>

NextSuppress == CallSuppressPd

SpecSuppress == InitSuppress /\ [][NextSuppress]_vars

\* Some key X_pd_n of pars is nonzero with its width X_pd nonzero.
Polydisperse(pars) ==
    \E k \in keys(pars) :
        /\ endswith(k, "_pd_n")
        /\ Num(getitem(pars, k)) # F(0)
        /\ drop2(k) \in keys(pars)
        /\ Num(getitem(pars, drop2(k))) # F(0)

HasPdN(pars) == \E k \in keys(pars) : endswith(k, "_pd_n")

\* C21: suppress_pd(pars, suppress=False) returns a set with a polydisperse
\* parameter whenever pars has a *_pd_n key, returns pars as it is when one
\* was polydisperse already, and leaves the caller's pars alone.
C21_AtLeastOnePolydisperse ==
    (pc = "returned" /\ ~args.suppress) =>
        /\ HasPdN(args.pars) => Polydisperse(ret.returned)
        /\ Polydisperse(args.pars) => ret.returned = args.pars
        /\ ret.pars = args.pars

\* No parameter was polydisperse, the first *_pd_n key had no width: the
\* count became 35 and the width 0.15.
C21_Witness ==
    /\ pc = "returned"
    /\ ~args.suppress
    /\ args.pars = << Item("radius", PyFloat(F(20))),
                      Item("radius_pd_n", PyInt(0)),
                      Item("length_pd_n", PyInt(10)) >>
    /\ getitem(ret.returned, "radius_pd_n") = PyInt(35)
    /\ getitem(ret.returned, "radius_pd") = PyFloat(Q(15, 100))

---------------------------------------------------------------------------
(* _random_pd on its own *)

\* A call of _random_pd in which np.random.rand() gave u first: the
\* candidates it collected, the set after the volume part and the set after
\* the orientation part, each with the generator state it leaves.
random_pd_parts(model_info, names, vol) ==
    [names |-> names, vol |-> vol, out |-> _random_pd_oriented(model_info, vol)]

random_pd_call(model_info, pars, names, u, st1) ==
    random_pd_parts(model_info, names, _random_pd_volume(pars, names, u, st1))

\* The values of u that are tried, the thresholds among them.
PdDraws == {F(0), Q(1, 200), Q(1, 100), Q(1, 2), Q(86, 100), Q(9, 10),
            Q(99, 100), Q(995, 1000)}

\* The generator states the draw of u may leave.
PdStreams == 0..3
PdStates == {[stream |-> s, pos |-> 1] : s \in PdStreams}

\* The values of the controlling parameter n that are tried.
PdControls == {PyInt(0), PyFloat(Q(2, 5)), PyInt(1), PyFloat(Q(3, 2)),
               PyInt(2), PyFloat(Q(5, 2))}

\* The models and the parameter sets _random_pd is given.
PdCalls ==
    {[model_info |-> polymer_micelle, pars |-> <<>>],
     [model_info |-> parallelepiped, pars |-> <<>>],
     [model_info |-> parallelepiped,
      pars |-> <<Item("length_a", PyFloat(F(35)))>>],
     [model_info |-> multi_shell(2), pars |-> <<>>]} \cup
    {[model_info |-> multi_shell(2), pars |-> <<Item("n", v)>>] :
        v \in PdControls}

InitPd ==
    /\ IdleSeed
    /\ pc = "call"
    /\ \E c \in PdCalls, u \in PdDraws, st1 \in PdStates :
          args = [model_info |-> c.model_info, pars |-> c.pars, u |-> u,
                  st |-> st1]
    /\ ret = <<>>

CallRandomPd ==
    /\ pc = "call"
    /\ ret' = random_pd_call(args.model_info, args.pars,
                             pd_volume(args.model_info.parameters, args.pars),
                             args.u, args.st)
    /\ pc' = "returned"
    /\ UNCHANGED <<args, seedVars>>

NextPd == CallRandomPd

SpecPd == InitPd /\ [][NextPd]_vars

\* How many candidates the volume part picked: one draw of the generator
\* for each.
Picked == ret.vol.rng.pos - args.st.pos

\* The number of candidates.
NCandidates == Len(ret.names)

\* The volume keys name_pd_n that carry the value v after the volume part.
Carrying(v) ==
    {i \in 1..NCandidates :
        /\ (ret.names[i] \o "_pd_n") \in keys(ret.vol.pars)
        /\ getitem(ret.vol.pars, ret.names[i] \o "_pd_n") = PyInt(v)}

\* C22: the two-candidate branch leaves two different volume keys with 25
\* and 10 points, the three-candidate branch three different ones with 25,
\* 10 and 5 points.
C22_DistinctCandidates ==
    pc = "returned" =>
        /\ Picked = 2 =>
              \E i \in Carrying(25), j \in Carrying(10) : i # j
        /\ Picked = 3 =>
              \E i \in Carrying(25), j \in Carrying(10), k \in Carrying(5) :
                  i # j /\ i # k /\ j # k

\* The branch of the volume part that u and the number of candidates select.
NoneBranch == QLt(args.u, Q(1, 100)) \/ NCandidates = 0
OneBranch == ~NoneBranch /\ (QLt(args.u, Q(86, 100)) \/ NCandidates = 1)
TwoBranch ==
    ~NoneBranch /\ ~OneBranch /\ (QLt(args.u, Q(99, 100)) \/ NCandidates = 2)
ThreeBranch == ~NoneBranch /\ ~OneBranch /\ ~TwoBranch

\* The elements of the vector parameter among the candidates.
Elements(name) ==
    SelectSeq(ret.names, LAMBDA x : startswith(x, name) /\ x # name)

\* K is an integer nearest to x, and no element exists for K below one.
Nearest(x, K) ==
    \/ K >= 0 /\ QLe(FAbs(QSub(x, F(K))), Q(1, 2))
    \/ K = 0 /\ QLt(x, F(0))

\* C23: nothing is activated iff u < 0.01 or there is no candidate, one
\* candidate gets 35 points iff not so and u < 0.86 or there is one
\* candidate, two are picked iff neither and u < 0.99 or there are two,
\* three otherwise; a length-controlled parameter has the candidates
\* name1..nameK, K the controlling value rounded to the nearest integer.
C23_BranchByDrawAndCount ==
    pc = "returned" =>
        /\ NoneBranch <=> (Picked = 0 /\ ret.vol.pars = args.pars)
        /\ OneBranch <=>
              /\ Picked = 1
              /\ \E i \in 1..NCandidates :
                    ret.vol.pars = setitem(args.pars, ret.names[i] \o "_pd_n",
                                           PyInt(35))
        /\ TwoBranch <=> Picked = 2
        /\ ThreeBranch <=> Picked = 3
        /\ args.model_info.id = "multi_shell" =>
              /\ Nearest(Num(get(args.pars, "n", PyInt(1))),
                         Len(Elements("thickness")))
              /\ Elements("thickness") =
                    [k \in 1..Len(Elements("thickness")) |->
                        "thickness" \o str(k)]

\* The three-candidate branch: u is 0.995 and the controlling value 2.5
\* gives three elements beside n itself.
C23_WitnessThree ==
    /\ pc = "returned"
    /\ args.u = Q(995, 1000)
    /\ get(args.pars, "n", PyInt(1)) = PyFloat(Q(5, 2))
    /\ ret.names = <<"n", "thickness1", "thickness2", "thickness3">>
    /\ Picked = 3

---------------------------------------------------------------------------
(* The keys randomize_pars returns *)

\* key without the suffix that makes it a polydispersity key.
base_name(key) ==
    IF endswith(key, "_pd_n") THEN SubSeq(key, 1, Len(key) - 5)
    ELSE IF endswith(key, "_pd_type") THEN SubSeq(key, 1, Len(key) - 8)
    ELSE IF endswith(key, "_pd_nsigma") THEN SubSeq(key, 1, Len(key) - 10)
    ELSE IF endswith(key, "_pd") THEN SubSeq(key, 1, Len(key) - 3)
    ELSE key

\* key names a parameter the model declares, an element the model has of
\* a vector parameter, or a polydispersity key of one of them.
Resolves(model_info, key) ==
    \E i \in 1..Len(model_info.parameters) :
        LET p == model_info.parameters[i]
        IN IF p.length = 1 THEN base_name(key) = p.name
           ELSE \E k \in 1..p.length : base_name(key) = p.name \o str(k)

\* The parameter set the latest call of randomize_pars was given.
LatestGiven == args.pars[Len(ret)]

---------------------------------------------------------------------------
(* _randomize_one on its own *)

\* A descriptor that declares one parameter.
one_parameter(name, limits, type) ==
    [id |-> "one_parameter", Iq_callable |-> FALSE, random |-> "None",
     parameters |-> <<Par(name, PyFloat(F(1)), limits, type)>>]

\* The names, roles, declared limits and current values that are tried.
OneNames == {"d_penetration", "n_aggreg", "sld_ratio", "radius_core"}
OneTypes == {"", "volume", "sld"}
OneLimits == {<<neginf, inf>>, <<F(0), inf>>, <<F(10), inf>>,
              <<neginf, F(-1)>>, <<F(0), F(1)>>}
OneValues == {F(-5), F(0), F(1), F(12), F(25)}
OneStates == {[stream |-> s, pos |-> 0] : s \in PdStreams}

InitOne ==
    /\ IdleSeed
    /\ pc = "call"
    /\ \E name \in OneNames, type \in OneTypes, limits \in OneLimits,
          value \in OneValues, st \in OneStates :
          args = [model_info |-> one_parameter(name, limits, type),
                  name |-> name, value |-> PyFloat(value), st |-> st]
    /\ ret = <<>>

CallRandomizeOne ==
    /\ pc = "call"
    /\ ret' = _randomize_one(args.model_info, args.name, args.value, args.st)
    /\ pc' = "returned"
    /\ UNCHANGED <<args, seedVars>>

NextOne == CallRandomizeOne

SpecOne == InitOne /\ [][NextOne]_vars

\* The parameter of the call, and whether it reaches the fallback: limits
\* not all finite, role not sld, no M0: key, no length, radius or thickness
\* of the volume role.
OnePar == parameter(args.model_info, args.name)
ReachesFallback ==
    /\ \E i \in 1..Len(OnePar.limits) : ~isfinite(OnePar.limits[i])
    /\ OnePar.type # "sld"
    /\ ~startswith(args.name, "M0:")
    /\ ~(/\ OnePar.type = "volume"
         /\ \/ contains(args.name, "length")
            \/ contains(args.name, "radius")
            \/ contains(args.name, "thick"))

Within(x, low, high) == QLe(low, x) /\ QLe(x, high)

\* C25: the value drawn in the fallback lies inside the declared limits and
\* inside parameter_range(name, current value), whatever the limits and the
\* current value are.
C25_FallbackInsideBoth ==
    (pc = "returned" /\ ReachesFallback) =>
        /\ ret.raised = ""
        /\ Within(Num(ret.v), OnePar.limits[1], OnePar.limits[2])
        /\ Within(Num(ret.v),
                  parameter_range(args.name, Num(args.value)).low,
                  parameter_range(args.name, Num(args.value)).high)

---------------------------------------------------------------------------
(* What constrain_pars leaves alone *)

MagneticKeys(pars) == {k \in keys(pars) : startswith(k, "M0:")}

\* C26: after constrain_pars on a model whose Iq is a Python callable every
\* M0: key is 0, whatever the identifier and whether or not a rule of the
\* model applies; on a model whose Iq is not callable every M0: key keeps
\* its value.
C26_MagnetismSuppressedForCallable ==
    pc \in {"returned", "raised"} =>
        /\ MagneticKeys(ret.pars) = MagneticKeys(args.pars)
        /\ args.model_info.Iq_callable =>
              \A k \in MagneticKeys(ret.pars) : After(k) = F(0)
        /\ ~args.model_info.Iq_callable =>
              \A k \in MagneticKeys(ret.pars) :
                  getitem(ret.pars, k) = getitem(args.pars, k)

\* A Python model under the barbell rule: the radii were swapped and both
\* moments zeroed.
C26_Witness ==
    /\ pc = "returned"
    /\ args.model_info.Iq_callable
    /\ args.model_info.id = "barbell"
    /\ QLt(Before("radius_bell"), Before("radius"))
    /\ After("radius") = Before("radius_bell")
    /\ Before("M0:sld") = F(3) /\ Before("M0:sld_solvent") = F(3)
    /\ After("M0:sld") = F(0) /\ After("M0:sld_solvent") = F(0)

\* The keys in the order the dict holds them.
key_list(pars) == [i \in 1..Len(pars) |-> pars[i].k]

\* The identifiers with a rule, the pair of keys a swap rule names.
RuleNames == {"barbell", "capped_cylinder", "guinier", "pearl_necklace", "rpa"}
SwapPair(name) ==
    CASE name = "barbell" -> {"radius", "radius_bell"}
      [] name = "capped_cylinder" -> {"radius", "radius_cap"}
      [] name = "pearl_necklace" -> {"radius", "thick_string"}
      [] OTHER -> {}

\* The keys outside frame keep their values, and the values of the pair
\* after the call are those before it in some order.
SwapFrame(pair, frame) ==
    /\ \A k \in keys(args.pars) \ frame :
          getitem(ret.pars, k) = getitem(args.pars, k)
    /\ \/ \A k \in pair : getitem(ret.pars, k) = getitem(args.pars, k)
       \/ \A k \in pair : \A other \in pair \ {k} :
              getitem(ret.pars, k) = getitem(args.pars, other)

\* C29 as stated: constrain_pars adds and removes no key; with no rule and
\* a non-callable Iq the set is unchanged; under a swap rule every key
\* other than the two paired ones is unchanged, and the values of the pair
\* are a permutation of those before.
C29_OnlyRuleKeysChange ==
    pc \in {"returned", "raised"} =>
        LET name == dispatch_name(args.model_info) IN
        /\ key_list(ret.pars) = key_list(args.pars)
        /\ (name \notin RuleNames /\ ~args.model_info.Iq_callable) =>
              ret.pars = args.pars
        /\ SwapPair(name) # {} => SwapFrame(SwapPair(name), SwapPair(name))

\* C29 as amended: constrain_pars adds and removes no key; with no rule and
\* a non-callable Iq the set is unchanged; under a swap rule every key
\* other than the two paired ones, and for a callable Iq other than the M0:
\* keys, is unchanged, and the values of the pair are a permutation of
\* those before.
C29_OnlyRuleAndMagneticKeysChange ==
    pc \in {"returned", "raised"} =>
        LET name == dispatch_name(args.model_info) IN
        /\ key_list(ret.pars) = key_list(args.pars)
        /\ (name \notin RuleNames /\ ~args.model_info.Iq_callable) =>
              ret.pars = args.pars
        /\ SwapPair(name) # {} =>
              SwapFrame(SwapPair(name),
                        SwapPair(name) \cup
                        (IF args.model_info.Iq_callable
                         THEN MagneticKeys(args.pars) ELSE {}))

\* The pearl_necklace rule swapped its pair on a product model and left
\* scale and the moments as they were.
C29_Witness ==
    /\ pc = "returned"
    /\ args.model_info.id = "pearl_necklace*hardsphere"
    /\ ~args.model_info.Iq_callable
    /\ QLt(Before("radius"), Before("thick_string"))
    /\ After("radius") = Before("thick_string")
    /\ After("thick_string") = Before("radius")
    /\ After("M0:sld") = F(3)
    /\ After("scale") = Before("scale")

---------------------------------------------------------------------------
(* get_pars on its own *)

\* get_pars(model_info, use_demo), demo being model_info.demo (empty when
\* the model has none).
get_pars_demo(model_info, use_demo, demo) ==
    IF use_demo /\ demo # <<>> THEN update(get_pars(model_info), demo)
    ELSE get_pars(model_info)

\* The descriptors and the demo values that are tried.
GetParsModels ==
    Models \cup {one_parameter(name, limits, type) :
                    name \in OneNames, limits \in OneLimits, type \in OneTypes}
Demos == {<<>>, <<Item("scale", PyFloat(F(2)))>>,
          <<Item("background", PyFloat(F(0))), Item("scale", PyInt(5))>>}

InitGetPars ==
    /\ IdleSeed
    /\ pc = "call"
    /\ \E model_info \in GetParsModels, use_demo \in BOOLEAN, demo \in Demos :
          args = [model_info |-> model_info, use_demo |-> use_demo,
                  demo |-> demo]
    /\ ret = <<>>

CallGetPars ==
    /\ pc = "call"
    /\ ret' = get_pars_demo(args.model_info, args.use_demo, args.demo)
    /\ pc' = "returned"
    /\ UNCHANGED <<args, seedVars>>

NextGetPars == CallGetPars

SpecGetPars == InitGetPars /\ [][NextGetPars]_vars

\* The keys a call parameter is to have: its own and, when it can be
\* polydisperse, the four suffixed ones, for each of its elements.
ElementIds(p) ==
    IF p.length = 1 THEN {p.name}
    ELSE {p.name \o str(k) : k \in 1..p.length}
ExpectedItems(p) ==
    {Item(id, p.default) : id \in ElementIds(p)} \cup
    (IF p.polydisperse
     THEN UNION {{Item(id \o "_pd", PyFloat(F(0))),
                  Item(id \o "_pd_n", PyInt(0)),
                  Item(id \o "_pd_nsigma", PyFloat(F(3))),
                  Item(id \o "_pd_type", PyStr("gaussian"))} :
                 id \in ElementIds(p)}
     ELSE {})

\* C30: get_pars returns an entry for every call parameter, key id for a
\* parameter of length 1 and keys id1..idL for one of length L > 1, with
\* the suffixed keys when it can be polydisperse, each with its default as
\* long as no demo value is applied.
C30_EntryForEveryCallParameter ==
    pc = "returned" =>
        \A i \in 1..Len(call_parameters(args.model_info)) :
            \A item \in ExpectedItems(call_parameters(args.model_info)[i]) :
                /\ item.k \in keys(ret)
                /\ (~args.use_demo \/ args.demo = <<>>) =>
                      getitem(ret, item.k) = item.v

---------------------------------------------------------------------------
(* The order of the calculator calls in run_models *)

\* The places in the call sequence where each calculator was called.
BaseCalls == {i \in 1..Len(ret.calls) :
                 ret.calls[i].engine = args.engines[1].engine}
CompCalls == {i \in 1..Len(ret.calls) :
                 /\ args.engines[2] # NoCalculator
                 /\ ret.calls[i].engine = args.engines[2].engine}

\* The calls time_calculation makes of a calculator for n evaluations: the
\* warm-up when n > 1 and then the timed ones, as far as the calculator
\* does not fail.
CallsMade(calculator, n) ==
    IF calculator.fails THEN 1 ELSE IF n > 1 THEN n + 1 ELSE 1

\* C27: in run_models every call of the base calculator, warm-up and timed,
\* is over before the first call of the comparison calculator, and the
\* comparison calculator is called only when there is one.
C27_BaseBeforeComparison ==
    pc # "call" =>
        /\ BaseCalls \cup CompCalls = 1..Len(ret.calls)
        /\ Cardinality(BaseCalls) = CallsMade(args.engines[1], args.count[1])
        /\ \A i \in BaseCalls, j \in CompCalls : i < j
        /\ args.engines[2] = NoCalculator => CompCalls = {}

\* Two evaluations asked of each calculator: three calls of the base, then
\* three of the comparison.
C27_Witness ==
    /\ pc = "returned"
    /\ args.count = <<2, 2>>
    /\ BaseCalls = {1, 2, 3}
    /\ CompCalls = {4, 5, 6}

---------------------------------------------------------------------------
(* main: parse_opts, the seeding of the generator, and compare *)

\* opts as parse_opts leaves it: the options of the flags and what the end
\* of parse_opts remembers (opts.update at 1249-1259), the model
\* descriptors, the values and the engines it has built.
remembered(opts, built) ==
    [def |-> built.def, values |-> built.values, engines |-> built.engines,
     count |-> <<1, 1>>, sets |-> opts.sets, seed |-> opts.seed,
     mono |-> opts.mono, magnetic |-> opts.magnetic]

\* What main leaves: whether parse_opts gave None, the options, the
\* generator as compare found it, and what compare left.
Main(none, opts, seeded, result) ==
    [none |-> none, opts |-> opts, seeded |-> seeded, raised |-> result.raised,
     calls |-> result.calls, invalid |-> result.invalid,
     evaluated |-> result.evaluated, rng |-> result.rng]

\* if opts['seed'] > -1: np.random.seed(opts['seed'])
main_seed(opts, st) == IF opts.seed > -1 THEN seed(st, opts.seed, None) ELSE st

\* main from the seeding on: compare(opts) unless -html or -edit was given
main_compare(flags, opts, seeded) ==
    \* the test of seeded has TLC evaluate it before compare starts
    IF flags.html \/ flags.explore \/ seeded.pos < 0
    THEN Main(FALSE, opts, seeded, Compared("", <<>>, <<>>, 0, seeded))
    ELSE Main(FALSE, opts, seeded, compare(opts, seeded))

main_opts(r, built) ==
    IF r.none
    THEN Main(TRUE, <<>>, r.rng, Compared("", <<>>, <<>>, 0, r.rng))
    ELSE main_compare(r.opts, remembered(r.opts, built),
                      main_seed(r.opts, r.rng))

\* main(*argv) with the global generator in state st, built being the
\* descriptors, values and engines parse_opts makes of argv.
main(argv, built, st) == main_opts(parse_opts(argv, st), built)

\* The command lines that are tried and what parse_opts builds for them: a
\* base calculator that may be unavailable when called, with or without a
\* comparison calculator.
MainFlags ==
    {<<>>, <<"-random=7">>, <<"-random=24">>, <<"-preset">>} \cup
    UNION {{<<"-sets=" \o str(n)>>, <<"-sets=" \o str(n), "-random=7">>,
            <<"-random=24", "-sets=" \o str(n)>>} : n \in 1..MaxSets}
MainValues == {<<>>, <<"bogus=1">>}
MainEngines ==
    {<<[engine |-> "OCL32", fails |-> f,
        out |-> IF f THEN <<>> ELSE Repeat(F(-2), GridLen)], comp>> :
        f \in BOOLEAN,
        comp \in {NoCalculator,
                  [engine |-> "OMP64", fails |-> FALSE,
                   out |-> Repeat(F(0), GridLen)]}}

InitMain ==
    /\ pc = "call"
    /\ \E def \in ModelPairs, flags \in MainFlags, values \in MainValues,
          engines \in MainEngines :
          args = [argv |-> <<def[1].id>> \o flags \o values,
                  built |-> [def |-> def, values |-> values,
                             engines |-> engines]]
    /\ \E entropy \in EntropyStreams : rng = seed(rng, None, entropy)
    /\ scopes = <<>>
    /\ hist = <<>>
    /\ event = [op |-> "start", seed |-> None, before |-> rng, moved |-> FALSE,
                value |-> 0, drawn |-> 0]
    /\ ret = <<>>

CallMain ==
    /\ pc = "call"
    /\ \E r \in {main(args.argv, args.built, rng)} :
          /\ ret' = r
          /\ rng' = r.rng
          /\ pc' = IF r.raised = "" THEN "returned" ELSE "raised"
    /\ UNCHANGED <<scopes, hist, event, args>>

NextMain == CallMain

SpecMain == InitMain /\ [][NextMain]_vars

\* The n of -sets=n on the command line, 0 when there is none, and the
\* rounds a run is to make.
SetsGiven ==
    IF \E i \in 1..Len(args.argv) : startswith(args.argv[i], "-sets=")
    THEN digits(from(args.argv[CHOOSE i \in 1..Len(args.argv) :
                                  startswith(args.argv[i], "-sets=")], 6))
    ELSE 0
Rounds == IF SetsGiven = 0 THEN 1 ELSE SetsGiven

\* What n rounds leave when no round reseeds the generator: round k + 1
\* generates its parameter sets from the state st in which round k left the
\* generator, and calls the calculators parse_opts built with them.
RECURSIVE RoundsFrom(_, _, _)
RoundCalls(pars) ==
    <<Call(args.built.engines[1], pars[1])>> \o
    (IF args.built.engines[2] = NoCalculator THEN <<>>
     ELSE <<Call(args.built.engines[2], pars[2])>>)
RoundAfter(k, calls, parsed) ==
    \* the test has TLC evaluate parsed before it goes on
    IF parsed.rng.pos >= 0
    THEN RoundsFrom(k + 1, parsed.rng, calls \o RoundCalls(parsed.pars))
    ELSE [rng |-> parsed.rng, calls |-> calls]
RoundsFrom(k, st, calls) ==
    IF k >= Rounds THEN [rng |-> st, calls |-> calls]
    ELSE RoundAfter(k, calls, parse_pars(ret.opts, st))

\* No round's parse_pars returns None: every key given is a key of one of
\* the two parameter sets.
AllKeysKnown ==
    \A i \in 1..Len(args.built.values) :
        \/ split_first(args.built.values[i], "=")
               \in keys(get_pars(args.built.def[1]))
        \/ split_first(args.built.values[i], "=")
               \in keys(get_pars(args.built.def[2]))

=============================================================================
